---- MODULE Spec2Model ----
(***************************************************************************)
(* Model of scripts/update_releases.py (class ReleaseTracker): the Slack   *)
(* to Confluence release summary.  Message bodies are real strings; every  *)
(* regular expression of the script is translated to a character-level     *)
(* matcher over them.  Python's None and the empty string are both written *)
(* "" (the script only ever tests these fields for truthiness).            *)
(***************************************************************************)
EXTENDS Integers, Sequences, FiniteSets, TLC

(***************************************************************************)
(* Characters and strings                                                  *)
(***************************************************************************)
Chr(s, i) == IF i >= 1 /\ i <= Len(s) THEN SubSeq(s, i, i) ELSE ""

LowerOf ==
  [A |-> "a", B |-> "b", C |-> "c", D |-> "d", E |-> "e", F |-> "f", G |-> "g",
   H |-> "h", I |-> "i", J |-> "j", K |-> "k", L |-> "l", M |-> "m", N |-> "n",
   O |-> "o", P |-> "p", Q |-> "q", R |-> "r", S |-> "s", T |-> "t", U |-> "u",
   V |-> "v", W |-> "w", X |-> "x", Y |-> "y", Z |-> "z"]

UpperChars == DOMAIN LowerOf
LowerChars == {LowerOf[c] : c \in UpperChars}
DigitChars == {"0", "1", "2", "3", "4", "5", "6", "7", "8", "9"}
SpaceChars == {" ", "\n", "\t", "\r"}

IsUpper(c) == c \in UpperChars
IsAlpha(c) == c \in UpperChars \/ c \in LowerChars
IsDigit(c) == c \in DigitChars
IsSpace(c) == c \in SpaceChars
\* \w
IsWord(c) == IsAlpha(c) \/ IsDigit(c) \/ c = "_"

LowerChr(c) == IF c \in UpperChars THEN LowerOf[c] ELSE c

\* str.lower() of s[a..b], by halves
RECURSIVE LowerRange(_, _, _)
LowerRange(s, a, b) ==
  IF a > b THEN ""
  ELSE IF a = b THEN LowerChr(Chr(s, a))
  ELSE LowerRange(s, a, (a + b) \div 2) \o LowerRange(s, (a + b) \div 2 + 1, b)

\* str.lower()
Lower(s) == LowerRange(s, 1, Len(s))

\* F applied to the value x: a value that is used more than once is computed once
With(x, F(_)) == F(x)

Min(a, b) == IF a < b THEN a ELSE b

\* F applied to x, x computed first: a loop that hands its result on this way
\* is evaluated one pass after the other
Then(x, F(_)) == IF x = x THEN F(x) ELSE F(x)

\* j, or d when j is 0
OrElse(j, d) == IF j = 0 THEN d ELSE j

\* the least (greatest) element of a set of positions, 0 for the empty set
MinOf(S) == IF S = {} THEN 0 ELSE CHOOSE j \in S : \A k \in S : j <= k
MaxOf(S) == IF S = {} THEN 0 ELSE CHOOSE j \in S : \A k \in S : j >= k

\* the first (last) position of lo..hi that satisfies P, 0 when none does
FirstPos(P(_), lo, hi) == MinOf({j \in lo..hi : P(j)})
LastPos(P(_), lo, hi) == MaxOf({j \in lo..hi : P(j)})

\* s[i-1:] in Python terms: the text from position i (1-based) on
From(s, i) == IF i > Len(s) THEN "" ELSE SubSeq(s, i, Len(s))

\* the literal p occurs in s at position i
At(s, i, p) == i >= 1 /\ i + Len(p) - 1 <= Len(s) /\ SubSeq(s, i, i + Len(p) - 1) = p

\* the literal p occurs in s at position i, ignoring case (p is lower case)
AtI(s, i, p) ==
  i >= 1 /\ i + Len(p) - 1 <= Len(s) /\ Lower(SubSeq(s, i, i + Len(p) - 1)) = p

\* first position >= i where the literal p occurs, 0 when there is none
Find(s, p, i) == FirstPos(LAMBDA j : At(s, j, p), i, Len(s) - Len(p) + 1)

Contains(s, p) == Find(s, p, 1) > 0

\* \b between positions i-1 and i
WordBoundary(s, i) == IsWord(Chr(s, i - 1)) # IsWord(Chr(s, i))

\* end (exclusive) of the longest run of characters of class cls starting at i
RunEnd(s, i, cls) ==
  IF i < 1 \/ i > Len(s) THEN i
  ELSE OrElse(FirstPos(LAMBDA k : Chr(s, k) \notin cls, i, Len(s)), Len(s) + 1)

\* end (exclusive) of the longest run of characters outside cls starting at i
RunEndNot(s, i, cls) ==
  IF i < 1 \/ i > Len(s) THEN i
  ELSE OrElse(FirstPos(LAMBDA k : Chr(s, k) \in cls, i, Len(s)), Len(s) + 1)

SkipSpace(s, i) == RunEnd(s, i, SpaceChars)

\* s without its leading (trailing) characters of class cls
LStripSet(s, cls) ==
  From(s, OrElse(FirstPos(LAMBDA k : Chr(s, k) \notin cls, 1, Len(s)), Len(s) + 1))

RStripSet(s, cls) == SubSeq(s, 1, LastPos(LAMBDA k : Chr(s, k) \notin cls, 1, Len(s)))

\* str.strip()
Strip(s) == RStripSet(LStripSet(s, SpaceChars), SpaceChars)

\* str.splitlines() for texts whose only line break is "\n"
RECURSIVE SplitLinesFrom(_, _)
SplitLinesFrom(s, start) ==
  IF start > Len(s) THEN <<>>
  ELSE With(OrElse(Find(s, "\n", start), Len(s) + 1), LAMBDA j :
         <<SubSeq(s, start, j - 1)>> \o SplitLinesFrom(s, j + 1))

splitlines(s) == SplitLinesFrom(s, 1)

\* sep.join(parts)
RECURSIVE Join(_, _)
Join(parts, sep) ==
  IF parts = <<>> THEN ""
  ELSE IF Len(parts) = 1 THEN parts[1]
  ELSE parts[1] \o sep \o Join(Tail(parts), sep)

(***************************************************************************)
(* _clean_slack_text: the Slack markup rules, applied in the script's      *)
(* order.  Each rule is a re.sub: leftmost, non-overlapping matches.       *)
(***************************************************************************)
UrlStart(s, i) ==
  IF At(s, i, "http://") THEN i + 7
  ELSE IF At(s, i, "https://") THEN i + 8
  ELSE 0

MentionIdChars == UpperChars \cup DigitChars
EmojiChars == UpperChars \cup LowerChars \cup DigitChars \cup {"_", "+", "-"}

\* SLACK_LINK_RE  <(https?://[^>|]+)\|([^>]+)>  at i: <<end (exclusive), label>>
SLACK_LINK_RE(s, i) ==
  With(UrlStart(s, i + 1), LAMBDA u :
  With(RunEndNot(s, u, {">", "|"}), LAMBDA b :
  With(RunEndNot(s, b + 1, {">"}), LAMBDA e :
    IF Chr(s, i) = "<" /\ u > 0 /\ b > u /\ Chr(s, b) = "|"
       /\ e > b + 1 /\ Chr(s, e) = ">"
    THEN <<e + 1, SubSeq(s, b + 1, e - 1)>>
    ELSE <<0, "">>)))

\* SLACK_PLAIN_LINK_RE  <(https?://[^>]+)>  at i: <<end (exclusive), url>>
SLACK_PLAIN_LINK_RE(s, i) ==
  With(UrlStart(s, i + 1), LAMBDA u :
  With(RunEndNot(s, u, {">"}), LAMBDA e :
    IF Chr(s, i) = "<" /\ u > 0 /\ e > u /\ Chr(s, e) = ">"
    THEN <<e + 1, SubSeq(s, i + 1, e - 1)>>
    ELSE <<0, "">>))

\* SLACK_SUBTEAM_RE  <!subteam\^[A-Z0-9]+(?:\|[^>]+)?>
SLACK_SUBTEAM_RE(s, i) ==
  With(RunEnd(s, i + 10, MentionIdChars), LAMBDA b :
  With(RunEndNot(s, b + 1, {">"}), LAMBDA e :
    IF At(s, i, "<!subteam^") /\ b > i + 10
    THEN IF Chr(s, b) = ">" THEN <<b + 1, "">>
         ELSE IF Chr(s, b) = "|" /\ e > b + 1 /\ Chr(s, e) = ">" THEN <<e + 1, "">>
         ELSE <<0, "">>
    ELSE <<0, "">>))

\* SLACK_SPECIAL_RE  <!(?:here|channel|everyone)>
SLACK_SPECIAL_RE(s, i) ==
  IF At(s, i, "<!here>") THEN <<i + 7, "">>
  ELSE IF At(s, i, "<!channel>") THEN <<i + 10, "">>
  ELSE IF At(s, i, "<!everyone>") THEN <<i + 11, "">>
  ELSE <<0, "">>

\* SLACK_MENTION_RE  <@([A-Z0-9]+)>
SLACK_MENTION_RE(s, i) ==
  With(RunEnd(s, i + 2, MentionIdChars), LAMBDA b :
    IF At(s, i, "<@") /\ b > i + 2 /\ Chr(s, b) = ">"
    THEN <<b + 1, "">> ELSE <<0, "">>)

\* SLACK_EMOJI_RE  :[a-z0-9_+-]+:  (IGNORECASE)
SLACK_EMOJI_RE(s, i) ==
  With(RunEnd(s, i + 1, EmojiChars), LAMBDA b :
    IF Chr(s, i) = ":" /\ b > i + 1 /\ Chr(s, b) = ":"
    THEN <<b + 1, "">> ELSE <<0, "">>)

\* HASH_TAG_RE  (?:^|\s)#\S+
HASH_TAG_RE(s, i) ==
  With(IF i = 1 /\ Chr(s, 1) = "#" THEN 1
       ELSE IF IsSpace(Chr(s, i)) /\ Chr(s, i + 1) = "#" THEN i + 1
       ELSE 0, LAMBDA h :
  With(RunEndNot(s, h + 1, SpaceChars), LAMBDA e :
    IF h > 0 /\ e > h + 1 THEN <<e, "">> ELSE <<0, "">>))

\* str.replace of a literal by ""
LiteralAt(s, i, p) == IF At(s, i, p) THEN <<i + Len(p), "">> ELSE <<0, "">>

\* re.sub(r"\s+", " ", s) over s[a..b], by halves: a white-space character
\* becomes one space when it starts a run and nothing when it continues one
RECURSIVE CollapseSpace(_, _, _)
CollapseSpace(s, a, b) ==
  IF a > b THEN ""
  ELSE IF a = b
       THEN IF ~IsSpace(Chr(s, a)) THEN Chr(s, a)
            ELSE IF IsSpace(Chr(s, a - 1)) THEN "" ELSE " "
  ELSE CollapseSpace(s, a, (a + b) \div 2) \o CollapseSpace(s, (a + b) \div 2 + 1, b)

CleanRule(rule, s, i) ==
  CASE rule = "link"     -> SLACK_LINK_RE(s, i)
    [] rule = "plain"    -> SLACK_PLAIN_LINK_RE(s, i)
    [] rule = "subteam"  -> SLACK_SUBTEAM_RE(s, i)
    [] rule = "special"  -> SLACK_SPECIAL_RE(s, i)
    [] rule = "mention"  -> SLACK_MENTION_RE(s, i)
    [] rule = "emoji"    -> SLACK_EMOJI_RE(s, i)
    [] rule = "here"     -> LiteralAt(s, i, "@here")
    [] rule = "channel"  -> LiteralAt(s, i, "@channel")
    [] rule = "hashtag"  -> HASH_TAG_RE(s, i)

\* re.sub of one rule over s, from position i
RECURSIVE ReSub(_, _, _)
ReSub(rule, s, i) ==
  IF i > Len(s) THEN ""
  ELSE With(FirstPos(LAMBDA k : CleanRule(rule, s, k)[1] > 0, i, Len(s)), LAMBDA j :
         IF j = 0 THEN From(s, i)
         ELSE With(CleanRule(rule, s, j), LAMBDA m :
                SubSeq(s, i, j - 1) \o m[2] \o ReSub(rule, s, m[1])))

CleanRules ==
  <<"link", "plain", "subteam", "special", "mention", "emoji", "here",
    "channel", "hashtag">>

RECURSIVE ApplyRules(_, _)
ApplyRules(rules, s) ==
  IF rules = <<>> THEN s
  ELSE Then(ReSub(Head(rules), s, 1), LAMBDA t : ApplyRules(Tail(rules), t))

_clean_slack_text(text) ==
  With(ApplyRules(CleanRules, text), LAMBDA t : Strip(CollapseSpace(t, 1, Len(t))))

(***************************************************************************)
(* Pattern tables (class constants)                                        *)
(***************************************************************************)
STOPWORDS ==
  {"thanks", "thx", "ok", "okay", "done", "approved", "approve", "team", "please",
   "pls", "today", "later", "prod", "production", "build", "ready", "release",
   "version", "push", "green-light", "greenlight", "check", "checked", "qa",
   "rollout", "rolling", "status", "published", "platform", "live", "android",
   "ios", "ipados", "workflow"}

\* GENERIC_TITLES_RE, one literal prefix per alternative (green-?light written out)
GENERIC_TITLES ==
  <<"hi team", "new build is ready", "team,", "team ", "i take your check mark",
    "please green-light", "please greenlight", "pls green-light", "pls greenlight">>

\* ABBR_MAP, keyed by the upper-case abbreviation
ABBR_MAP == [DMN |-> "Dominoes", NM |-> "Number Match", SPD |-> "Spades", BTK |-> "Block Tok"]

\* CANONICAL_MAP as <<lower-case name, canonical name>> pairs
CANONICAL_MAP ==
  <<<<"block tok", "Block Tok">>, <<"dominoes", "Dominoes">>,
    <<"number match", "Number Match">>, <<"spades", "Spades">>,
    <<"klondike solitaire", "Klondike Solitaire">>, <<"wordmaker", "Wordmaker">>>>

\* APP_HINTS: <<canonical name, alternatives>>; an alternative is the sequence of
\* words of one \b...\b pattern (words separated by \s* in the pattern)
APP_HINTS ==
  <<<<"Dominoes", <<<<"dominoes">>, <<"dmn">>>>>>,
    <<"Number Match", <<<<"number", "match">>, <<"nm">>>>>>,
    <<"Spades", <<<<"spades">>, <<"spd">>>>>>,
    <<"Block Tok", <<<<"block", "tok">>, <<"btk">>>>>>,
    <<"Klondike Solitaire", <<<<"klondike">>>>>>,
    <<"Wordmaker", <<<<"wordmaker">>>>>>>>

PLATFORMS == <<"android", "ios", "ipados">>

\* the prefixes _normalize_app_candidate refuses: ^(Build|APP|...)\b
REJECT_PREFIXES ==
  <<"build", "app", "application", "game", "approved", "approve", "status",
    "platform", "published", "workflow">>

\* the characters trimmed from both ends of a candidate (the pattern's back
\* quote and its two long dashes are not characters of the modelled texts)
TrimChars ==
  SpaceChars \cup {"*", "_", "~", "[", "]", "(", ")", "+", "-", "|", ":", ".", ",", ";"}

\* [A-Za-z0-9 +()\[\]&'./-] : the characters of a name after an explicit marker
MarkerNameChars ==
  UpperChars \cup LowerChars \cup DigitChars
    \cup {" ", "+", "(", ")", "[", "]", "&", "'", ".", "/", "-"}

\* [A-Za-z0-9 +&'./-]
HeadNameChars == MarkerNameChars \ {"(", ")", "[", "]"}

(***************************************************************************)
(* Small matchers shared by the patterns                                   *)
(***************************************************************************)
\* some element of the sequence of literals ps occurs in s at i, ignoring case:
\* the index of the first such element, 0 when none
RECURSIVE FirstAtI(_, _, _, _)
FirstAtI(s, i, ps, k) ==
  IF k > Len(ps) THEN 0
  ELSE IF AtI(s, i, ps[k]) THEN k
  ELSE FirstAtI(s, i, ps, k + 1)

\* len(re.findall(r"[A-Za-z]", s))
CountAlpha(s) == Cardinality({i \in 1..Len(s) : IsAlpha(Chr(s, i))})

\* \d+\.\d+\.\d+ at i: end (exclusive), 0 when it does not match
VersionEnd(s, i) ==
  With(RunEnd(s, i, DigitChars), LAMBDA a :
  With(RunEnd(s, a + 1, DigitChars), LAMBDA b :
  With(RunEnd(s, b + 1, DigitChars), LAMBDA c :
    IF a > i /\ Chr(s, a) = "." /\ b > a + 1 /\ Chr(s, b) = "." /\ c > b + 1
    THEN c ELSE 0)))

\* (\d+\.\d+\.\d+)\b at i: the greedy last \d+ cannot give back a digit and
\* still end on a boundary
VersionEndB(s, i) ==
  With(VersionEnd(s, i), LAMBDA e : IF e > 0 /\ ~IsWord(Chr(s, e)) THEN e ELSE 0)

\* VERSION_ANY_RE.search  \b(\d+\.\d+\.\d+)\b : the first match, "" when none
VERSION_ANY_RE(s) ==
  With(FirstPos(LAMBDA k : ~IsWord(Chr(s, k - 1)) /\ VersionEndB(s, k) > 0, 1, Len(s)),
       LAMBDA i : IF i = 0 THEN "" ELSE SubSeq(s, i, VersionEndB(s, i) - 1))

\* GENERIC_TITLES_RE.match(name)
GENERIC_TITLES_RE(name) == FirstAtI(name, 1, GENERIC_TITLES, 1) > 0

\* ^(w1|w2|...)\b at the start of s, ignoring case
RECURSIVE PrefixWord(_, _, _)
PrefixWord(s, ws, k) ==
  IF k > Len(ws) THEN FALSE
  ELSE (AtI(s, 1, ws[k]) /\ WordBoundary(s, Len(ws[k]) + 1)) \/ PrefixWord(s, ws, k + 1)

\* the words ws, separated by \s*, occur at i between two \b
RECURSIVE WordsAt(_, _, _)
WordsAt(s, i, ws) ==
  IF ws = <<>> THEN WordBoundary(s, i)
  ELSE AtI(s, i, Head(ws))
       /\ WordsAt(s, IF Len(ws) > 1 THEN SkipSpace(s, i + Len(Head(ws)))
                     ELSE i + Len(Head(ws)), Tail(ws))

\* re.search(\bw1\s*w2...\b) over s, ignoring case
WordsSearch(s, i, ws) == \E k \in i..Len(s) : WordBoundary(s, k) /\ WordsAt(s, k, ws)

RECURSIVE AnyAlternative(_, _)
AnyAlternative(s, alts) ==
  IF alts = <<>> THEN FALSE
  ELSE WordsSearch(s, 1, Head(alts)) \/ AnyAlternative(s, Tail(alts))

RECURSIVE LookupPairs(_, _, _)
LookupPairs(pairs, key, default) ==
  IF pairs = <<>> THEN default
  ELSE IF Head(pairs)[1] = key THEN Head(pairs)[2]
  ELSE LookupPairs(Tail(pairs), key, default)

UpperChr(c) ==
  IF c \in LowerChars THEN CHOOSE u \in UpperChars : LowerOf[u] = c ELSE c

RECURSIVE UpperRange(_, _, _)
UpperRange(s, a, b) ==
  IF a > b THEN ""
  ELSE IF a = b THEN UpperChr(Chr(s, a))
  ELSE UpperRange(s, a, (a + b) \div 2) \o UpperRange(s, (a + b) \div 2 + 1, b)

\* str.upper()
Upper(s) == UpperRange(s, 1, Len(s))

(***************************************************************************)
(* _normalize_app_candidate: "" stands for None                            *)
(***************************************************************************)
\* re.sub(r"\s*\[(Android|iOS|iPadOS)\]\s*$", "", n, flags=re.I)
\* low ends with the k-th platform in brackets
EndsWithTag(low, k) ==
  /\ Len(low) >= Len(PLATFORMS[k]) + 2
  /\ At(low, Len(low) - Len(PLATFORMS[k]) - 1, "[" \o PLATFORMS[k] \o "]")

StripPlatformTag(n) ==
  With(RStripSet(n, SpaceChars), LAMBDA t :
  With(Lower(t), LAMBDA low :
  With(MaxOf({k \in 1..Len(PLATFORMS) : EndsWithTag(low, k)}), LAMBDA k :
    IF k = 0 THEN n
    ELSE RStripSet(SubSeq(t, 1, Len(t) - Len(PLATFORMS[k]) - 2), SpaceChars))))

\* re.match(r"^([A-Za-z][A-Za-z0-9 +&'./-]{2,60})\s*\(([A-Za-z0-9]{2,8})\)$", n):
\* group(1).strip(), or n when it does not match
StripParenAbbr(n) ==
  With(Find(n, "(", 1), LAMBDA p :
  With(Min(RunEnd(n, 2, HeadNameChars) - 1, 61), LAMBDA g :
  With(RunEnd(n, p + 1, UpperChars \cup LowerChars \cup DigitChars), LAMBDA a :
    IF /\ p > 0 /\ IsAlpha(Chr(n, 1)) /\ g >= 3
       /\ SkipSpace(n, g + 1) = p
       /\ a - (p + 1) >= 2 /\ a - (p + 1) <= 8
       /\ Chr(n, a) = ")" /\ a = Len(n)
    THEN Strip(SubSeq(n, 1, g))
    ELSE n)))

\* n ends with white space, the word w and d further characters
EndsWord(n, low, d, w) ==
  /\ Len(n) - d - Len(w) >= 1
  /\ At(low, Len(n) - d - Len(w) + 1, w)
  /\ IsSpace(Chr(n, Len(n) - d - Len(w)))

CutWord(n, d, w) == RStripSet(SubSeq(n, 1, Len(n) - d - Len(w)), SpaceChars)

\* re.sub(r"\s+\b(app|application|game)\b\.?$", "", n, flags=re.I)
StripAppSuffix(n) ==
  With(IF Chr(n, Len(n)) = "." THEN 1 ELSE 0, LAMBDA d :
  With(Lower(n), LAMBDA low :
    IF EndsWord(n, low, d, "application") THEN CutWord(n, d, "application")
    ELSE IF EndsWord(n, low, d, "app") THEN CutWord(n, d, "app")
    ELSE IF EndsWord(n, low, d, "game") THEN CutWord(n, d, "game")
    ELSE n))

\* lines 138-143: the checks on the cleaned name
CheckedName(n5) ==
  IF CountAlpha(n5) < 2 THEN ""
  ELSE IF Lower(n5) \in STOPWORDS THEN ""
  ELSE IF PrefixWord(n5, REJECT_PREFIXES, 1) THEN ""
  ELSE IF GENERIC_TITLES_RE(n5) THEN ""
  ELSE n5

_normalize_app_candidate(name) ==
  IF name = "" THEN ""
  ELSE
    With(Strip(StripPlatformTag(RStripSet(LStripSet(Strip(name), TrimChars), TrimChars))),
         LAMBDA n2 :
    With(Upper(n2), LAMBDA up :
      IF up \in DOMAIN ABBR_MAP THEN ABBR_MAP[up]
      ELSE With(Strip(StripAppSuffix(StripParenAbbr(n2))), LAMBDA n4 :
             CheckedName(LookupPairs(CANONICAL_MAP, Lower(n4), n4)))))

(***************************************************************************)
(* _infer_app_from_text: the hint dictionary ("" when nothing matches).    *)
(* The ABBR_MAP loop after the hints repeats four of the hint alternatives *)
(* and can add nothing.                                                    *)
(***************************************************************************)
\* \bKlondike(\s+Solitaire)?\b matches wherever \bKlondike\b does, or where
\* Klondike runs into Solitaire across white space
RECURSIVE InferFrom(_, _)
InferFrom(text, k) ==
  IF k > Len(APP_HINTS) THEN ""
  ELSE IF AnyAlternative(text, APP_HINTS[k][2]) THEN APP_HINTS[k][1]
  ELSE InferFrom(text, k + 1)

_infer_app_from_text(text) == IF text = "" THEN "" ELSE InferFrom(text, 1)

(***************************************************************************)
(* _extract_explicit_app_from_text: explicit app markers in a reply        *)
(***************************************************************************)
\* (?P<name>[A-Za-z][A-Za-z0-9 +()\[\]&'./-]{2,60})\b at ns: the greedy name
\* gives characters back until it ends on a \b; end (exclusive), 0 when none
BackToBoundary(s, e, lo) == LastPos(LAMBDA k : WordBoundary(s, k), lo, e)

MarkerNameEnd(s, ns) ==
  IF IsAlpha(Chr(s, ns))
  THEN BackToBoundary(s, Min(RunEnd(s, ns + 1, MarkerNameChars), ns + 61), ns + 3)
  ELSE 0

APP_MARKERS == <<"app", "application", "game", "project", "title">>

\* one alternative of APP_EXPLICIT_RE at i: <<name start, name end (exclusive)>>
AppMarkerAt(s, i, w) ==
  With(SkipSpace(s, i + Len(w)), LAMBDA k :
  With(SkipSpace(s, k + 1), LAMBDA ns :
  With(MarkerNameEnd(s, ns), LAMBDA ne :
    IF AtI(s, i, w) /\ Chr(s, k) \in {":", "=", "-"} /\ ne > 0
    THEN <<ns, ne>> ELSE <<0, 0>>)))

RECURSIVE AppExplicitAt(_, _, _)
AppExplicitAt(s, i, k) ==
  IF k > Len(APP_MARKERS) THEN <<0, 0>>
  ELSE With(AppMarkerAt(s, i, APP_MARKERS[k]), LAMBDA m :
         IF m[1] > 0 THEN m ELSE AppExplicitAt(s, i, k + 1))

\* the text of the match <<start, end (exclusive)>> at i, "" when i is 0
Group(text, i, m) == IF i = 0 THEN "" ELSE SubSeq(text, m[1], m[2] - 1)

\* APP_EXPLICIT_RE.search(text): group('name'), "" when there is no match
APP_EXPLICIT_RE(text) ==
  With(FirstPos(LAMBDA k : WordBoundary(text, k) /\ AppExplicitAt(text, k, 1)[1] > 0,
                1, Len(text)),
       LAMBDA i : Group(text, i, AppExplicitAt(text, i, 1)))

\* the end (exclusive) of (?:this\s+is|it\s+is|it\'s) at i, 0 when none matches
ThisIsHead(s, i) ==
  With(SkipSpace(s, i + 4), LAMBDA a :
  With(SkipSpace(s, i + 2), LAMBDA b :
    IF AtI(s, i, "this") /\ a > i + 4 /\ AtI(s, a, "is") THEN a + 2
    ELSE IF AtI(s, i, "it") /\ b > i + 2 /\ AtI(s, b, "is") THEN b + 2
    ELSE IF AtI(s, i, "it's") THEN i + 4
    ELSE 0))

\* THIS_IS_RE at i: <<name start, name end (exclusive)>>
ThisIsAt(s, i) ==
  With(IF WordBoundary(s, i) THEN ThisIsHead(s, i) ELSE 0, LAMBDA h :
  With(SkipSpace(s, h), LAMBDA ns :
  With(MarkerNameEnd(s, ns), LAMBDA ne :
    IF h > 0 /\ ns > h /\ ne > 0 THEN <<ns, ne>> ELSE <<0, 0>>)))

\* THIS_IS_RE.search(text): group('name'), "" when there is no match
THIS_IS_RE(text) ==
  With(FirstPos(LAMBDA k : ThisIsAt(text, k)[1] > 0, 1, Len(text)),
       LAMBDA i : Group(text, i, ThisIsAt(text, i)))

\* a or b
Or(a, b) == IF a # "" THEN a ELSE b

\* lines 166-170: a reply of one line is a candidate as a whole
WholeLine(text) ==
  With(Strip(text), LAMBDA t :
    IF ~Contains(t, "\n") THEN _normalize_app_candidate(t) ELSE "")

_extract_explicit_app_from_text(text) ==
  IF text = "" THEN ""
  ELSE Or(_normalize_app_candidate(APP_EXPLICIT_RE(text)),
          Or(_normalize_app_candidate(THIS_IS_RE(text)), WholeLine(text)))

(***************************************************************************)
(* The Record Builder's patterns                                           *)
(***************************************************************************)
NoMatch == [ok |-> FALSE, name |-> "", version |-> "", percent |-> "", platform |-> ""]

\* ANNOUNCE_RE from the "(" at p on:
\*   \(\s*(version)\s*\)\s*is ready for rollout to\s*(percent)%\s+of users on\s+(platform)
AnnounceTail(s, p) ==
  With(SkipSpace(s, p + 1), LAMBDA a :
  With(VersionEnd(s, a), LAMBDA ve :
  With(SkipSpace(s, ve), LAMBDA b :
  With(SkipSpace(s, b + 1), LAMBDA c :
  With(SkipSpace(s, c + 23), LAMBDA d :
  With(RunEnd(s, d, DigitChars), LAMBDA pe :
  With(SkipSpace(s, pe + 1), LAMBDA f :
  With(SkipSpace(s, f + 11), LAMBDA g :
  With(RunEnd(s, g, UpperChars \cup LowerChars \cup DigitChars \cup {"_"}), LAMBDA w :
    IF /\ Chr(s, p) = "(" /\ ve > 0 /\ Chr(s, b) = ")"
       /\ AtI(s, c, "is ready for rollout to")
       /\ pe > d /\ Chr(s, pe) = "%"
       /\ f > pe + 1 /\ AtI(s, f, "of users on")
       /\ g > f + 11 /\ w > g
    THEN [ok |-> TRUE, name |-> "", version |-> SubSeq(s, a, ve - 1),
          percent |-> SubSeq(s, d, pe - 1), platform |-> SubSeq(s, g, w - 1)]
    ELSE NoMatch)))))))))

\* the match m with the group name set
Named(m, name) == IF m.ok THEN [m EXCEPT !.name = name] ELSE NoMatch

\* the lazy (?P<name>.+?) ends before the first "(" from which the rest matches
AnnounceName(s, ns, p) ==
  With(FirstPos(LAMBDA k : AnnounceTail(s, k).ok, p, Len(s)), LAMBDA q :
    IF q = 0 THEN NoMatch ELSE Named(AnnounceTail(s, q), SubSeq(s, ns, q - 1)))

\* a if it is a match, else b
OrMatch(a, b) == IF a.ok THEN a ELSE b

\* ANNOUNCE_RE.search(s); \s+ before the name gives its white space back to the
\* name when that is what lets the name hold a character
AnnounceAt(s, i) ==
  With(SkipSpace(s, i + 17), LAMBDA ns :
    IF AtI(s, i, "latest version of") /\ ns > i + 17
    THEN OrMatch(AnnounceName(s, ns, ns + 1),
                 IF ns - 1 > i + 17
                 THEN Named(AnnounceTail(s, ns), SubSeq(s, ns - 1, ns - 1))
                 ELSE NoMatch)
    ELSE NoMatch)

ANNOUNCE_RE(s) ==
  With(FirstPos(LAMBDA k : AnnounceAt(s, k).ok, 1, Len(s)), LAMBDA i :
    IF i = 0 THEN NoMatch ELSE AnnounceAt(s, i))

\* INLINE_NAME_VERSION_RE from the separator at p on:
\*   [-:|]\s*Version[: ]\s*(version)\b
InlineTail(s, p) ==
  With(SkipSpace(s, p + 1), LAMBDA a :
  With(SkipSpace(s, a + 8), LAMBDA b :
  With(VersionEndB(s, b), LAMBDA ve :
    IF /\ Chr(s, p) \in {"-", ":", "|"} /\ AtI(s, a, "version")
       /\ Chr(s, a + 7) \in {":", " "} /\ ve > 0
    THEN [NoMatch EXCEPT !.ok = TRUE, !.version = SubSeq(s, b, ve - 1)]
    ELSE NoMatch)))

InlineFrom(s, p) ==
  With(FirstPos(LAMBDA k : InlineTail(s, k).ok, p, Len(s)), LAMBDA q :
    IF q = 0 THEN NoMatch ELSE Named(InlineTail(s, q), SubSeq(s, 1, q - 1)))

\* INLINE_NAME_VERSION_RE.match(ln) on a stripped line: the lazy name ends
\* before the first separator from which the rest matches
INLINE_NAME_VERSION_RE(ln) == InlineFrom(ln, 2)

\* ^\s*Key\s*:\s* at the start of line l: where the value starts, 0 when no match
KeyValueStart(l, key) ==
  With(SkipSpace(l, 1), LAMBDA a :
  With(SkipSpace(l, a + Len(key)), LAMBDA c :
    IF AtI(l, a, key) /\ Chr(l, c) = ":" THEN SkipSpace(l, c + 1) ELSE 0))

\* ANY_VERSION_KV_RE.match(l): group('version'), "" when no match
ANY_VERSION_KV_RE(l) ==
  With(KeyValueStart(l, "version"), LAMBDA v :
  With(VersionEndB(l, v), LAMBDA e :
    IF v > 0 /\ e > 0 THEN SubSeq(l, v, e - 1) ELSE ""))

\* ANY_BUILD_KV_RE.match(l): (?P<build>[\w#-]+)\b, "" when no match
ANY_BUILD_KV_RE(l) ==
  With(KeyValueStart(l, "build"), LAMBDA v :
  With(BackToBoundary(l,
         RunEnd(l, v, UpperChars \cup LowerChars \cup DigitChars \cup {"_", "#", "-"}),
         v + 1), LAMBDA b :
    IF v > 0 /\ b > 0 THEN SubSeq(l, v, b - 1) ELSE ""))

\* ^\s*Key\s*:\s*(.+?)\s*$ : the value, "" when no match
LazyValue(l, key) ==
  With(KeyValueStart(l, key), LAMBDA v :
    IF v > 0 THEN RStripSet(From(l, v), SpaceChars) ELSE "")

ANY_PLATFORM_KV_RE(l) == LazyValue(l, "platform")
STATUS_KV_RE(l) == LazyValue(l, "status")
ROLLOUT_KV_RE(l) == Or(LazyValue(l, "rollout"), LazyValue(l, "current rollout"))

\* BULLET_DOT_RE.match(l) or l.startswith(bullet); the round bullet glyph is not
\* a character of the modelled texts
IsBullet(l) == Chr(l, SkipSpace(l, 1)) \in {"-", "*"}

\* BULLET_DOT_RE.sub('', l).strip()
BulletItem(l) == Strip(From(l, SkipSpace(l, 1) + 1))

\* the while loop of the bullet collection: the items of the bullet lines that
\* follow line i, each cleaned, empty items skipped
RECURSIVE CollectBullets(_, _)
CollectBullets(lines, j) ==
  IF j <= Len(lines) /\ IsBullet(lines[j])
  THEN With(BulletItem(lines[j]), LAMBDA item :
         (IF item # "" THEN <<_clean_slack_text(item)>> ELSE <<>>)
           \o CollectBullets(lines, j + 1))
  ELSE <<>>

\* \bon\s+(Android|iOS|iPadOS)\b at i: <<group start, group end (exclusive)>>
OnPlatformAt(s, i) ==
  With(SkipSpace(s, i + 2), LAMBDA a :
  With(FirstAtI(s, a, PLATFORMS, 1), LAMBDA k :
    IF /\ WordBoundary(s, i) /\ AtI(s, i, "on") /\ a > i + 2 /\ k > 0
       /\ WordBoundary(s, a + Len(PLATFORMS[k]))
    THEN <<a, a + Len(PLATFORMS[k])>> ELSE <<0, 0>>))

\* ON_PLATFORM_RE.search(s): group(1), "" when no match
ON_PLATFORM_RE(s) ==
  With(FirstPos(LAMBDA k : OnPlatformAt(s, k)[1] > 0, 1, Len(s)),
       LAMBDA i : Group(s, i, OnPlatformAt(s, i)))

\* NAME_LINE_RE.match(head): group('name'), "" when no match
\*   ^\s*(?P<name>[^:()]+?)(?:\s*\([^)]+\))?\s*$
NAME_LINE_RE(head) ==
  With(Strip(head), LAMBDA h :
  With(RunEndNot(h, 1, {":", "(", ")"}), LAMBDA e :
  With(RunEndNot(h, e + 1, {")"}), LAMBDA q :
    IF h = "" \/ e = 1 THEN ""
    ELSE IF e > Len(h) THEN h
    ELSE IF Chr(h, e) = "(" /\ q > e + 1 /\ q = Len(h)
         THEN RStripSet(SubSeq(h, 1, e - 1), SpaceChars)
    ELSE "")))

(***************************************************************************)
(* _parse_release_from_text                                                *)
(***************************************************************************)
EmptyRecord ==
  [app |-> "", version |-> "", build |-> "", platform |-> "", status |-> "",
   published |-> "", rollout |-> "", initial_rollout |-> "", current_rollout |-> "",
   key_changes |-> <<>>, timeline |-> <<>>]

\* lines 218-226: the announcement sentence fills the record
AnnouncementRecord(m) ==
  [EmptyRecord EXCEPT
     !.app = Strip(m.name), !.version = Strip(m.version),
     !.platform = Strip(m.platform), !.initial_rollout = m.percent \o "%",
     !.rollout = m.percent \o "% staged rollout", !.status = "Ready for rollout"]

\* lines 228-233: the inline name/version line, over the lines of the cleaned text
InlineStep(res, s) ==
  With(INLINE_NAME_VERSION_RE(Strip(s)), LAMBDA im :
    IF s # "" /\ im.ok
    THEN [res EXCEPT !.app = _normalize_app_candidate(Strip(im.name)),
                     !.version = Strip(im.version)]
    ELSE res)

\* lines 235: the stripped, non-empty lines of the raw text
RECURSIVE NonEmptyLines(_)
NonEmptyLines(ls) ==
  IF ls = <<>> THEN <<>>
  ELSE With(Strip(Head(ls)), LAMBDA l :
         (IF l # "" THEN <<l>> ELSE <<>>) \o NonEmptyLines(Tail(ls)))

StartsWithI(l, p) == AtI(l, 1, p)

\* lines 237-238
VersionLine(res, l) ==
  With(ANY_VERSION_KV_RE(l), LAMBDA v :
    IF v # "" /\ res.version = "" THEN [res EXCEPT !.version = v] ELSE res)

\* lines 239-241
BuildLine(res, l) ==
  With(ANY_BUILD_KV_RE(l), LAMBDA v :
    IF v # "" /\ res.build = ""
    THEN [res EXCEPT !.build = LStripSet(_clean_slack_text(v), {"#"})] ELSE res)

\* lines 242-244
PlatformLine(res, l) ==
  With(ANY_PLATFORM_KV_RE(l), LAMBDA v :
    IF v # "" /\ res.platform = ""
    THEN [res EXCEPT !.platform = _clean_slack_text(v)] ELSE res)

\* lines 245-246
StatusLine(res, l) ==
  With(STATUS_KV_RE(l), LAMBDA v :
    IF v # "" THEN [res EXCEPT !.status = _clean_slack_text(v)] ELSE res)

\* lines 247-248
RolloutLine(res, l) ==
  With(ROLLOUT_KV_RE(l), LAMBDA v :
    IF v # "" THEN [res EXCEPT !.current_rollout = _clean_slack_text(v)] ELSE res)

\* lines 250-255
ChangesLine(res, lines, i) ==
  IF StartsWithI(lines[i], "recent changes") \/ StartsWithI(lines[i], "key changes")
  THEN [res EXCEPT !.key_changes = @ \o CollectBullets(lines, i + 1)]
  ELSE res

\* lines 237-255: one line of the key-value scan
KeyValueLine(res, lines, i) ==
  ChangesLine(
    RolloutLine(
      StatusLine(
        PlatformLine(BuildLine(VersionLine(res, lines[i]), lines[i]), lines[i]),
        lines[i]),
      lines[i]),
    lines, i)

RECURSIVE KeyValueScan(_, _, _)
KeyValueScan(res, lines, i) ==
  IF i > Len(lines) THEN res
  ELSE Then(KeyValueLine(res, lines, i), LAMBDA r : KeyValueScan(r, lines, i + 1))

\* lines 257-259
PlatformPhraseStep(res, s) ==
  IF res.platform = "" THEN [res EXCEPT !.platform = ON_PLATFORM_RE(s)] ELSE res

\* lines 264-268: the app name the head line gives, "" when it gives none
HeadName(head) ==
  IF GENERIC_TITLES_RE(head) \/ PrefixWord(head, <<"build", "app">>, 1) THEN ""
  ELSE _normalize_app_candidate(NAME_LINE_RE(head))

\* lines 261-268: the head line as app candidate
HeadLineStep(res, lines) ==
  IF res.app = "" /\ lines # <<>>
  THEN [res EXCEPT !.app = HeadName(_clean_slack_text(lines[1]))]
  ELSE res

\* lines 270-284
StatusHeuristic(lower) ==
  IF Contains(lower, "being rolled back") \/ Contains(lower, "roll back")
  THEN "Being rolled back"
  ELSE IF Contains(lower, "in production") \/ WordsSearch(lower, 1, <<"production">>)
  THEN "In production"
  ELSE IF Contains(lower, "internal testing") THEN "Internal testing"
  ELSE IF Contains(lower, "rollout") \/ Contains(lower, "rolled out") THEN "Staged rollout"
  ELSE IF Contains(lower, "ready") THEN "Ready for rollout"
  ELSE "Unknown"

StatusStep(res, s) ==
  IF res.status = "" THEN [res EXCEPT !.status = StatusHeuristic(Lower(s))] ELSE res

\* lines 286-287
HintStep(res, s) ==
  IF res.app = "" THEN [res EXCEPT !.app = _infer_app_from_text(s)] ELSE res

\* lines 288-290
VersionAnywhereStep(res, s) ==
  IF res.version = "" THEN [res EXCEPT !.version = VERSION_ANY_RE(s)] ELSE res

\* lines 228-290: the extractors after the announcement sentence
Extractors(s, lines) ==
  VersionAnywhereStep(
    HintStep(
      StatusStep(
        HeadLineStep(
          PlatformPhraseStep(
            KeyValueScan(InlineStep(EmptyRecord, s), lines, 1), s),
          lines), s), s), s)

\* the Record Builder without its early return: the announcement is not looked at
AnnouncementIgnored(m, s, text) == Extractors(s, NonEmptyLines(splitlines(text)))

\* lines 218-226, or the extractors
AnnouncementOr(m, s, text) ==
  IF m.ok THEN AnnouncementRecord(m)
  ELSE Extractors(s, NonEmptyLines(splitlines(text)))

_parse_release_from_text(text) ==
  With(_clean_slack_text(text), LAMBDA s : AnnouncementOr(ANNOUNCE_RE(s), s, text))

(***************************************************************************)
(* The Reply Merger's patterns                                             *)
(***************************************************************************)
\* \b(?P<platform>Android|iOS|iPadOS)\b\s+(?P<version>\d+\.\d+\.\d+)\b at i
NoPlatformVersion == [ok |-> FALSE, platform |-> "", version |-> "", end |-> 0]

PlatformVersionAt(s, i) ==
  With(FirstAtI(s, i, PLATFORMS, 1), LAMBDA k :
    IF k = 0 \/ ~WordBoundary(s, i) THEN NoPlatformVersion
    ELSE With(i + Len(PLATFORMS[k]), LAMBDA e :
         With(SkipSpace(s, e), LAMBDA a :
         With(VersionEndB(s, a), LAMBDA v :
           IF WordBoundary(s, e) /\ a > e /\ v > 0
           THEN [ok |-> TRUE, platform |-> SubSeq(s, i, e - 1),
                 version |-> SubSeq(s, a, v - 1), end |-> v]
           ELSE NoPlatformVersion))))

\* rolled\s+out\s+to\s+(?P<pct>\d+)% at j: the percentage, "" when no match
RolledOutToAt(s, j) ==
  With(SkipSpace(s, j + 6), LAMBDA a :
  With(SkipSpace(s, a + 3), LAMBDA b :
  With(SkipSpace(s, b + 2), LAMBDA c :
  With(RunEnd(s, c, DigitChars), LAMBDA d :
    IF /\ AtI(s, j, "rolled") /\ a > j + 6 /\ AtI(s, a, "out") /\ b > a + 3
       /\ AtI(s, b, "to") /\ c > b + 2 /\ d > c /\ Chr(s, d) = "%"
    THEN SubSeq(s, c, d - 1) ELSE ""))))

\* the lazy .*? stops at the first place from e on where the rest matches
FirstRolledOutTo(s, e) == FirstPos(LAMBDA j : RolledOutToAt(s, j) # "", e, Len(s))

\* \bis\s+live\b at j
IsLiveAt(s, j) ==
  With(SkipSpace(s, j + 2), LAMBDA a :
    /\ WordBoundary(s, j) /\ AtI(s, j, "is") /\ a > j + 2 /\ AtI(s, a, "live")
    /\ WordBoundary(s, a + 4))

NoRolled == [ok |-> FALSE, platform |-> "", version |-> "", pct |-> ""]

\* the match that starts with the platform and version h, rolled out to the
\* percentage found at j
RolledMatch(s, h, j) ==
  [ok |-> TRUE, platform |-> h.platform, version |-> h.version,
   pct |-> RolledOutToAt(s, j)]

\* the platform and version h is followed, somewhere, by "rolled out to N%"
ThenRolled(s, h) == h.ok /\ FirstRolledOutTo(s, h.end) > 0

\* the platform and version h is followed, somewhere, by "is live"
ThenLive(s, h) == h.ok /\ \E j \in h.end..Len(s) : IsLiveAt(s, j)

RolledFrom(s, h) == RolledMatch(s, h, FirstRolledOutTo(s, h.end))

\* PLATFORM_VERSION_ROLLED_RE.search(txt)
PLATFORM_VERSION_ROLLED_RE(s) ==
  With(FirstPos(LAMBDA i : ThenRolled(s, PlatformVersionAt(s, i)), 1, Len(s)), LAMBDA i :
    IF i = 0 THEN NoRolled ELSE RolledFrom(s, PlatformVersionAt(s, i)))

LiveMatch(h) == [ok |-> TRUE, platform |-> h.platform, version |-> h.version, pct |-> ""]

\* PLATFORM_VERSION_LIVE_RE.search(txt)
PLATFORM_VERSION_LIVE_RE(s) ==
  With(FirstPos(LAMBDA i : ThenLive(s, PlatformVersionAt(s, i)), 1, Len(s)), LAMBDA i :
    IF i = 0 THEN NoRolled ELSE LiveMatch(PlatformVersionAt(s, i)))

\* \bVersion\s+(?P<version>\d+\.\d+\.\d+)\b at i: <<version start, end (exclusive)>>
VersionWordAt(s, i) ==
  With(SkipSpace(s, i + 7), LAMBDA a :
  With(VersionEndB(s, a), LAMBDA v :
    IF WordBoundary(s, i) /\ AtI(s, i, "version") /\ a > i + 7 /\ v > 0
    THEN <<a, v>> ELSE <<0, 0>>))

\* the version at h is followed, somewhere, by "rolled out to N%"
VersionThenRolled(s, h) == h[1] > 0 /\ FirstRolledOutTo(s, h[2]) > 0

VersionRolledFrom(s, h) ==
  [ok |-> TRUE, platform |-> "", version |-> SubSeq(s, h[1], h[2] - 1),
   pct |-> RolledOutToAt(s, FirstRolledOutTo(s, h[2]))]

\* VERSION_ROLLED_RE.search(txt)
VERSION_ROLLED_RE(s) ==
  With(FirstPos(LAMBDA i : VersionThenRolled(s, VersionWordAt(s, i)), 1, Len(s)), LAMBDA i :
    IF i = 0 THEN NoRolled ELSE VersionRolledFrom(s, VersionWordAt(s, i)))

\* \b(\d+)%\s+rolled\s+out!?$ at i: group(1), "" when no match
RolledOutBangAt(s, i) ==
  With(RunEnd(s, i, DigitChars), LAMBDA d :
  With(SkipSpace(s, d + 1), LAMBDA a :
  With(SkipSpace(s, a + 6), LAMBDA b :
  With(b + 3, LAMBDA e :
    IF /\ WordBoundary(s, i) /\ d > i /\ Chr(s, d) = "%" /\ a > d + 1
       /\ AtI(s, a, "rolled") /\ b > a + 6 /\ AtI(s, b, "out")
       /\ (e = Len(s) + 1 \/ (e = Len(s) /\ Chr(s, e) = "!"))
    THEN SubSeq(s, i, d - 1) ELSE ""))))

\* ROLLED_OUT_BANG_RE.search(txt)
ROLLED_OUT_BANG_RE(s) ==
  With(FirstPos(LAMBDA k : RolledOutBangAt(s, k) # "", 1, Len(s)), LAMBDA i :
    IF i = 0 THEN "" ELSE RolledOutBangAt(s, i))

\* :release[_\- ]?(\d+): at i: group(1), "" when no match
ReleaseEmojiAt(s, i) ==
  With(IF Chr(s, i + 8) \in {"_", "-", " "} /\ IsDigit(Chr(s, i + 9))
       THEN i + 9 ELSE i + 8, LAMBDA a :
  With(RunEnd(s, a, DigitChars), LAMBDA d :
    IF AtI(s, i, ":release") /\ d > a /\ Chr(s, d) = ":"
    THEN SubSeq(s, a, d - 1) ELSE ""))

\* RELEASE_EMOJI_RE.search(txt_raw)
RELEASE_EMOJI_RE(s) ==
  With(FirstPos(LAMBDA k : ReleaseEmojiAt(s, k) # "", 1, Len(s)), LAMBDA i :
    IF i = 0 THEN "" ELSE ReleaseEmojiAt(s, i))

\* light(?:ed)?\b at a
LightAt(s, a) ==
  AtI(s, a, "light")
    /\ ((AtI(s, a + 5, "ed") /\ WordBoundary(s, a + 7)) \/ WordBoundary(s, a + 5))

\* re.search(r"\bgreen\s*light(?:ed)?\b|\bgreen-?light(?:ed)?\b", txt, re.I)
GreenLight(s) ==
  \E i \in 1..Len(s) :
    /\ WordBoundary(s, i) /\ AtI(s, i, "green")
    /\ \/ LightAt(s, SkipSpace(s, i + 5))
       \/ (Chr(s, i + 5) = "-" /\ LightAt(s, i + 6))

\* re.search(r"can be submitted to store|ready for submission", txt, re.I)
ReadyForSubmission(s) ==
  With(Lower(s), LAMBDA low :
    Contains(low, "can be submitted to store") \/ Contains(low, "ready for submission"))

STATUS_ROLLOUT_KEYS == <<"current status", "current rollout", "rollout", "status">>

\* group(2) of the pattern below, for the colon at c: (.+) runs to the end of
\* its line; \s* crosses line breaks, and when only white space follows the
\* colon it gives back the last character that is not a line break
StatusRolloutValue(s, c) ==
  With(SkipSpace(s, c + 1), LAMBDA w :
    IF w <= Len(s) THEN SubSeq(s, w, RunEndNot(s, w, {"\n"}) - 1)
    ELSE With(LastPos(LAMBDA j : Chr(s, j) # "\n", c + 1, Len(s)), LAMBDA q :
           IF q > 0 THEN SubSeq(s, q, q) ELSE ""))

\* <<key, value>> when there is a value
KeyAndValue(key, val) == IF val = "" THEN <<"", "">> ELSE <<key, val>>

\* (Current Status|Current Rollout|Rollout|Status)\s*:\s*(.+) at i:
\* <<group(1) lower-cased, group(2)>>, <<"", "">> when no match
StatusRolloutAt(s, i) ==
  With(FirstAtI(s, i, STATUS_ROLLOUT_KEYS, 1), LAMBDA k :
    IF k = 0 THEN <<"", "">>
    ELSE With(SkipSpace(s, i + Len(STATUS_ROLLOUT_KEYS[k])), LAMBDA c :
           IF Chr(s, c) = ":"
           THEN KeyAndValue(STATUS_ROLLOUT_KEYS[k], StatusRolloutValue(s, c))
           ELSE <<"", "">>))

StatusRolloutSearch(s) ==
  With(FirstPos(LAMBDA k : StatusRolloutAt(s, k)[1] # "", 1, Len(s)), LAMBDA i :
    IF i = 0 THEN <<"", "">> ELSE StatusRolloutAt(s, i))

\* [Android], [iOS] or [iPadOS] at i: group(1), "" when no match
BracketedAt(s, i) ==
  With(FirstAtI(s, i + 1, PLATFORMS, 1), LAMBDA k :
    IF k > 0 /\ Chr(s, i) = "[" /\ Chr(s, i + 1 + Len(PLATFORMS[k])) = "]"
    THEN SubSeq(s, i + 1, i + Len(PLATFORMS[k])) ELSE "")

\* SINGLE_BRACKETED_PLATFORM_RE.search(txt): group(1), "" when no match
SINGLE_BRACKETED_PLATFORM_RE(s) ==
  With(FirstPos(LAMBDA k : BracketedAt(s, k) # "", 1, Len(s)), LAMBDA i :
    IF i = 0 THEN "" ELSE BracketedAt(s, i))

(***************************************************************************)
(* _merge_replies_into_release: one iteration of the reply loop, then the  *)
(* resolution of app and version after the loop                            *)
(***************************************************************************)
Progress(pct) == "Rollout in progress (" \o pct \o "%)"
Staged(pct) == pct \o "% staged rollout"

\* lines 307-311
RolledStep(base, txt) ==
  With(PLATFORM_VERSION_ROLLED_RE(txt), LAMBDA m1 :
    IF m1.ok
    THEN [base EXCEPT !.platform = Or(@, m1.platform), !.version = Or(@, m1.version),
                      !.rollout = Staged(m1.pct)]
    ELSE base)

\* lines 312-317
LiveStep(base, txt) ==
  With(PLATFORM_VERSION_LIVE_RE(txt), LAMBDA m2 :
    IF m2.ok
    THEN [base EXCEPT !.platform = Or(@, m2.platform), !.version = Or(@, m2.version),
                      !.status = "In production", !.timeline = Append(@, "Live")]
    ELSE base)

\* line 321
RolloutIf(base, pct) == IF pct # "" THEN [base EXCEPT !.rollout = Staged(pct)] ELSE base

\* lines 318-321
VersionRolledStep(base, txt) ==
  IF base.version # "" THEN base
  ELSE With(VERSION_ROLLED_RE(txt), LAMBDA m3 :
         IF m3.ok THEN RolloutIf([base EXCEPT !.version = m3.version], m3.pct)
         ELSE base)

\* lines 325-326 and 329-330
ProgressTo(base, pct) ==
  IF pct # ""
  THEN [base EXCEPT !.rollout = Staged(pct), !.timeline = Append(@, Progress(pct))]
  ELSE base

\* lines 323-326
BangStep(base, txt) == ProgressTo(base, ROLLED_OUT_BANG_RE(txt))

\* lines 327-330
EmojiStep(base, txt_raw) == ProgressTo(base, RELEASE_EMOJI_RE(txt_raw))

\* l.strip() for each line of the reply, empty lines kept
RECURSIVE StripEach(_)
StripEach(ls) == IF ls = <<>> THEN <<>> ELSE <<Strip(Head(ls))>> \o StripEach(Tail(ls))

\* lines 336-338
CardVersion(base, l, lines, i) ==
  IF StartsWithI(l, "build version") /\ i + 1 <= Len(lines) /\ base.version = ""
  THEN [base EXCEPT !.version = _clean_slack_text(lines[i + 1])] ELSE base

\* lines 339-341
CardBuild(base, l, lines, i) ==
  IF StartsWithI(l, "build number") /\ i + 1 <= Len(lines)
  THEN [base EXCEPT !.build = LStripSet(_clean_slack_text(lines[i + 1]), {"#"})]
  ELSE base

\* lines 342-347
CardChanges(base, l, lines, i) ==
  IF StartsWithI(l, "recent changes")
  THEN [base EXCEPT !.key_changes = @ \o CollectBullets(lines, i + 1)]
  ELSE base

\* lines 336-347: one line of a build card
BuildCardLine(base, lines, i) ==
  With(lines[i], LAMBDA l :
    CardChanges(CardBuild(CardVersion(base, l, lines, i), l, lines, i), l, lines, i))

RECURSIVE BuildCardScan(_, _, _)
BuildCardScan(base, lines, i) ==
  IF i > Len(lines) THEN base
  ELSE Then(BuildCardLine(base, lines, i), LAMBDA b : BuildCardScan(b, lines, i + 1))

\* lines 332-347
BuildCardStep(base, txt_raw) ==
  IF Contains(txt_raw, "Build Version:") \/ Contains(txt_raw, "Build Number:")
       \/ Contains(txt_raw, "Recent changes:")
  THEN BuildCardScan(base, StripEach(splitlines(txt_raw)), 1)
  ELSE base

\* lines 350-351
CheckedCue(base, txt) ==
  IF WordsSearch(txt, 1, <<"checked">>)
  THEN [base EXCEPT !.timeline = Append(@, "Checked by QA")] ELSE base

\* lines 352-354
GreenLightCue(base, txt) ==
  IF GreenLight(txt)
  THEN [base EXCEPT !.timeline = Append(@, "Green-lighted"),
                    !.status = Or(@, "Ready for rollout")]
  ELSE base

\* lines 355-357
SubmissionCue(base, txt) ==
  IF ReadyForSubmission(txt)
  THEN [base EXCEPT !.timeline = Append(@, "Ready for submission"),
                    !.status = Or(@, "Ready for submission")]
  ELSE base

\* lines 349-357
CueStep(base, txt) == SubmissionCue(GreenLightCue(CheckedCue(base, txt), txt), txt)

\* lines 359-364
StatusRolloutStep(base, txt_raw) ==
  With(StatusRolloutSearch(txt_raw), LAMBDA mm :
    IF mm[1] = "" THEN base
    ELSE IF Contains(mm[1], "status")
         THEN [base EXCEPT !.status = _clean_slack_text(mm[2])]
         ELSE [base EXCEPT !.current_rollout = _clean_slack_text(mm[2])])

\* line 368
PlatformIf(base, mplat) == IF mplat # "" THEN [base EXCEPT !.platform = mplat] ELSE base

\* lines 366-368
BracketStep(base, txt) ==
  IF base.platform # "" THEN base
  ELSE PlatformIf(base, SINGLE_BRACKETED_PLATFORM_RE(txt))

\* lines 307-368 for a reply whose cleaned text is txt
MergeCleaned(base, txt_raw, txt) ==
  BracketStep(
    StatusRolloutStep(
      CueStep(
        BuildCardStep(
          EmojiStep(
            BangStep(
              VersionRolledStep(LiveStep(RolledStep(base, txt), txt), txt),
              txt),
            txt_raw),
          txt_raw),
        txt),
      txt_raw),
    txt)

\* lines 298-368: the body of the loop for one reply, on the record
MergeReply(base, txt_raw) == MergeCleaned(base, txt_raw, _clean_slack_text(txt_raw))

\* the reply loop keeping the first explicit candidate instead of the latest
KeepsFirstExplicit(explicit_app, txt_raw) ==
  Or(explicit_app, _extract_explicit_app_from_text(_clean_slack_text(txt_raw)))

\* lines 303-305: the latest explicit app candidate
LatestExplicit(explicit_app, txt_raw) ==
  Or(_extract_explicit_app_from_text(_clean_slack_text(txt_raw)), explicit_app)

\* lines 371-372
is_generic(name) == name # "" /\ GENERIC_TITLES_RE(name)

\* lines 382-386: the first reply, in order, that yields an explicit candidate
RECURSIVE FirstCandidate(_)
FirstCandidate(joined_plain) ==
  IF joined_plain = <<>> THEN ""
  ELSE Or(_extract_explicit_app_from_text(Head(joined_plain)),
          FirstCandidate(Tail(joined_plain)))

\* lines 375 and 377
NeedsApp(base) == base.app = "" \/ is_generic(base.app)

\* line 376, line 380, line 385
AppIf(base, name) == IF name # "" THEN [base EXCEPT !.app = name] ELSE base

\* lines 374-376
ExplicitStep(base, explicit_app) ==
  IF NeedsApp(base) THEN AppIf(base, explicit_app) ELSE base

\* lines 378-386
InferredOrCandidate(base, joined_plain, inferred) ==
  IF inferred # "" THEN [base EXCEPT !.app = inferred]
  ELSE AppIf(base, FirstCandidate(joined_plain))

\* lines 377-386
InferStep(base, joined_plain) ==
  IF NeedsApp(base)
  THEN InferredOrCandidate(base, joined_plain, _infer_app_from_text(Join(joined_plain, " ")))
  ELSE base

\* lines 374-386
ResolveApp(base, joined_plain, explicit_app) ==
  InferStep(ExplicitStep(base, explicit_app), joined_plain)

\* line 390
VersionIf(base, mver) == IF mver # "" THEN [base EXCEPT !.version = mver] ELSE base

\* lines 388-390
ResolveVersion(base, joined_plain) ==
  IF base.version # "" THEN base
  ELSE VersionIf(base, VERSION_ANY_RE(Join(joined_plain, " ")))

\* lines 370-392: after the loop
MergeFinish(base, joined_plain, explicit_app) ==
  ResolveVersion(ResolveApp(base, joined_plain, explicit_app), joined_plain)

\* the cleaned texts of the replies, in order (joined_plain)
RECURSIVE CleanEach(_)
CleanEach(ts) ==
  IF ts = <<>> THEN <<>> ELSE <<_clean_slack_text(Head(ts))>> \o CleanEach(Tail(ts))

RECURSIVE MergeLoop(_, _)
MergeLoop(base, ts) ==
  IF ts = <<>> THEN base
  ELSE Then(MergeReply(base, Head(ts)), LAMBDA b : MergeLoop(b, Tail(ts)))

RECURSIVE LatestExplicitOf(_, _)
LatestExplicitOf(explicit_app, ts) ==
  IF ts = <<>> THEN explicit_app
  ELSE LatestExplicitOf(LatestExplicit(explicit_app, Head(ts)), Tail(ts))

\* _merge_replies_into_release(base, replies), replies given by their texts
_merge_replies_into_release(base, ts) ==
  MergeFinish(MergeLoop(base, ts), CleanEach(ts), LatestExplicitOf("", ts))

(***************************************************************************)
(* Dates: datetime.fromtimestamp(ts, tz=utc).strftime(...).  A timestamp   *)
(* is a whole number of seconds (Slack's "1700000000.000100" without its   *)
(* fraction, which only makes the timestamps of one channel distinct).     *)
(***************************************************************************)
MONTHS ==
  <<"January", "February", "March", "April", "May", "June", "July", "August",
    "September", "October", "November", "December">>

\* the civil date of a day number counted from 1970-01-01
CivilFromDays(days) ==
  With(days + 719468, LAMBDA z :
  With(z \div 146097, LAMBDA era :
  With(z - era * 146097, LAMBDA doe :
  With((doe - doe \div 1460 + doe \div 36524 - doe \div 146096) \div 365, LAMBDA yoe :
  With(doe - (365 * yoe + yoe \div 4 - yoe \div 100), LAMBDA doy :
  With((5 * doy + 2) \div 153, LAMBDA mp :
  With(IF mp < 10 THEN mp + 3 ELSE mp - 9, LAMBDA m :
    [year |-> yoe + era * 400 + (IF m <= 2 THEN 1 ELSE 0), month |-> m,
     day |-> doy - (153 * mp + 2) \div 5 + 1])))))))

TwoDigits(n) == IF n < 10 THEN "0" \o ToString(n) ELSE ToString(n)

\* strftime("%B %d, %Y")
LongDate(ts) ==
  With(CivilFromDays(ts \div 86400), LAMBDA c :
    MONTHS[c.month] \o " " \o TwoDigits(c.day) \o ", " \o ToString(c.year))

\* strftime("%B %d")
MonthDay(ts) ==
  With(CivilFromDays(ts \div 86400), LAMBDA c :
    MONTHS[c.month] \o " " \o TwoDigits(c.day))

\* strftime("%B %d, %Y at %H:%M UTC")
LongDateTime(ts) ==
  LongDate(ts) \o " at " \o TwoDigits((ts % 86400) \div 3600) \o ":"
    \o TwoDigits((ts % 3600) \div 60) \o " UTC"

(***************************************************************************)
(* parse_releases: the steps around the Record Builder and the Reply Merger*)
(***************************************************************************)
\* msg.get('thread_ts') and msg.get('thread_ts') == msg.get('ts'); 0 is "no thread_ts"
is_thread_root(msg) == msg.thread_ts # 0 /\ msg.thread_ts = msg.ts

\* not msg.get('thread_ts')
is_single(msg) == msg.thread_ts = 0

\* the loop without its skip: every message is processed
ProcessesAll(msg) == TRUE

\* line 404: the messages the loop does not skip
IsProcessed(msg) == is_thread_root(msg) \/ is_single(msg)

\* re.search(r'(\d+)%', text): group(1), "" when no match
PercentAt(text, k) ==
  IF IsDigit(Chr(text, k)) /\ Chr(text, RunEnd(text, k, DigitChars)) = "%"
  THEN SubSeq(text, k, RunEnd(text, k, DigitChars) - 1) ELSE ""

PercentSearch(text) ==
  With(FirstPos(LAMBDA k : PercentAt(text, k) # "", 1, Len(text)), LAMBDA j :
    IF j = 0 THEN "" ELSE PercentAt(text, j))

\* line 408
PublishedOn(r, ts) ==
  IF r.published = "" THEN [r EXCEPT !.published = LongDate(ts)] ELSE r

\* lines 409-411
InitialRollout(r, text) ==
  IF r.rollout # "" THEN r ELSE RolloutIf(r, PercentSearch(text))

\* lines 406-411: the record of one message before its replies are merged
BuildRelease(msg) ==
  InitialRollout(PublishedOn(_parse_release_from_text(msg.text), msg.ts), msg.text)

\* line 412: the replies are merged
HasReplies(msg) == is_thread_root(msg) /\ msg.replies # <<>>

\* lines 415-419: the acceptance filter
Accepted(r) ==
  /\ r.app # "" /\ ~GENERIC_TITLES_RE(r.app)
  /\ (r.version # "" \/ r.status # "" \/ r.key_changes # <<>>)

\* line 420
WithTimestamp(r, ts) == [timestamp |-> ts] @@ r

\* line 426
DedupeKey(r) == Strip(r.app) \o "-" \o Strip(r.version)

KeyIndex(unique, key) == FirstPos(LAMBDA k : DedupeKey(unique[k]) = key, 1, Len(unique))

\* line 427: r replaces the entry of its key
Replaces(r, old) == r.timestamp > old.timestamp

\* lines 427-428: r against the entry of its key, which is at place k (0: none)
DedupeOne(unique, r, k) ==
  IF k = 0 THEN Append(unique, r)
  ELSE IF Replaces(r, unique[k]) THEN [unique EXCEPT ![k] = r]
  ELSE unique

\* lines 425-428: the dict keeps each key at the place of its first insertion
RECURSIVE DedupeInto(_, _)
DedupeInto(unique, rs) ==
  IF rs = <<>> THEN unique
  ELSE Then(DedupeOne(unique, Head(rs), KeyIndex(unique, DedupeKey(Head(rs)))),
            LAMBDA u : DedupeInto(u, Tail(rs)))

Dedupe(rs) == DedupeInto(<<>>, rs)

\* the sort without reverse=True
SortsOldestFirst(x, y) == x.timestamp < y.timestamp

\* line 431: x comes before y
SortsBefore(x, y) == x.timestamp > y.timestamp

\* r put into the sorted list xs, behind the records that do not sort after it
InsertSorted(xs, r) ==
  With(FirstPos(LAMBDA j : SortsBefore(r, xs[j]), 1, Len(xs)), LAMBDA k :
    IF k = 0 THEN Append(xs, r)
    ELSE SubSeq(xs, 1, k - 1) \o <<r>> \o SubSeq(xs, k, Len(xs)))

\* list.sort(key=timestamp, reverse=True): stable
RECURSIVE SortInto(_, _)
SortInto(xs, rs) ==
  IF rs = <<>> THEN xs
  ELSE Then(InsertSorted(xs, Head(rs)), LAMBDA ys : SortInto(ys, Tail(rs)))

SortNewestFirst(rs) == SortInto(<<>>, rs)

\* lines 406-413: the record of one processed message
MergedRelease(msg) ==
  With(BuildRelease(msg), LAMBDA base :
    IF HasReplies(msg) THEN _merge_replies_into_release(base, msg.replies) ELSE base)

\* lines 415-421
IfAccepted(r, ts) == IF Accepted(r) THEN <<WithTimestamp(r, ts)>> ELSE <<>>

\* lines 398-421 for one message: its record if it is accepted
AcceptedOf(msg) ==
  IF IsProcessed(msg) THEN IfAccepted(MergedRelease(msg), msg.ts) ELSE <<>>

\* lines 398-421: the accepted records in message order
RECURSIVE AcceptedReleases(_)
AcceptedReleases(messages) ==
  IF messages = <<>> THEN <<>>
  ELSE AcceptedOf(Head(messages)) \o AcceptedReleases(Tail(messages))

\* parse_releases as a function of the message list
parse_releases(messages) == SortNewestFirst(Dedupe(AcceptedReleases(messages)))

(***************************************************************************)
(* generate_confluence_html.  The two long dashes of the page header are   *)
(* written "-": the strings of this module are ASCII.                      *)
(***************************************************************************)
\* int(os.getenv('LOOKBACK_DAYS', '30'))
LOOKBACK_DAYS == 30

\* the characters of the modelled texts in code-point order
CharOrder ==
  " !\"#$%&'()*+,-./0123456789:;<=>?@ABCDEFGHIJKLMNOPQRSTUVWXYZ[\\]^_abcdefghijklmnopqrstuvwxyz{|}~"

CodeOf(c) == FirstPos(LAMBDA k : Chr(CharOrder, k) = c, 1, Len(CharOrder))

\* a < b as Python compares str
StrLess(a, b) ==
  With(FirstPos(LAMBDA k : Chr(a, k) # Chr(b, k), 1, Min(Len(a), Len(b))), LAMBDA d :
    IF d = 0 THEN Len(a) < Len(b) ELSE CodeOf(Chr(a, d)) < CodeOf(Chr(b, d)))

\* sorted(apps.keys())
RECURSIVE SortedNames(_)
SortedNames(names) ==
  IF names = {} THEN <<>>
  ELSE With(CHOOSE a \in names : \A b \in names \ {a} : StrLess(a, b), LAMBDA least :
         <<least>> \o SortedNames(names \ {least}))

\* apps[app_name]: the records of one app in the order of the list
RECURSIVE AppReleases(_, _)
AppReleases(releases, app_name) ==
  IF releases = <<>> THEN <<>>
  ELSE (IF Head(releases).app = app_name THEN <<Head(releases)>> ELSE <<>>)
         \o AppReleases(Tail(releases), app_name)

_li(key, val) == "<li><strong>" \o key \o ":</strong> " \o val \o "</li>"

LiIf(key, val) == IF val # "" THEN _li(key, val) ELSE ""

RECURSIVE Items(_)
Items(lines) ==
  IF lines = <<>> THEN "" ELSE "<li>" \o Head(lines) \o "</li>" \o Items(Tail(lines))

\* line 476-480: the timeline line of one of the app's other records
HistoryLine(rel) ==
  rel.published \o ": " \o Or(rel.status, "Status update")
    \o (IF rel.rollout # "" THEN " (" \o rel.rollout \o ")" ELSE "")

Reversed(xs) == [k \in 1..Len(xs) |-> xs[Len(xs) + 1 - k]]

\* lines 471-481
TimelineLines(app_releases) ==
  app_releases[1].timeline
    \o [k \in 1..(Len(app_releases) - 1) |-> HistoryLine(Reversed(Tail(app_releases))[k])]

\* lines 456-482: the section of one app
LatestSection(idx, app_name, app_releases, latest) ==
     "<h3>" \o ToString(idx) \o ". " \o app_name \o "</h3><ul>"
       \o LiIf("Version", latest.version) \o LiIf("Build", latest.build)
       \o LiIf("Platform", latest.platform) \o LiIf("Published", latest.published)
       \o LiIf("Rollout", latest.rollout) \o LiIf("Status", latest.status)
       \o "</ul>"
       \o (IF latest.key_changes # <<>>
           THEN "<p><strong>Key Changes:</strong></p><ul>"
                  \o Items(SubSeq(latest.key_changes, 1, Min(20, Len(latest.key_changes))))
                  \o "</ul>"
           ELSE "")
       \o (IF Len(app_releases) > 1 \/ latest.timeline # <<>>
           THEN "<p><strong>Timeline:</strong></p><ul>"
                  \o Items(TimelineLines(app_releases)) \o "</ul>"
           ELSE "")
       \o "<hr/>"

AppSection(idx, app_name, app_releases) ==
  LatestSection(idx, app_name, app_releases, app_releases[1])

RECURSIVE Sections(_, _, _)
Sections(releases, names, idx) ==
  IF idx > Len(names) THEN ""
  ELSE AppSection(idx, names[idx], AppReleases(releases, names[idx]))
         \o Sections(releases, names, idx + 1)

ROLLOUT_PROCESS ==
  "<h2>Rollout Process</h2><p>All releases follow a staged rollout process:</p><ol>"
    \o "<li>Internal testing and verification</li>"
    \o "<li>Team approval (SDK, Product, Monetization teams)</li>"
    \o "<li>Initial 10% rollout</li>"
    \o "<li>Health checks (crash rates, ARPU, impressions per user)</li>"
    \o "<li>Increase to 20% if metrics are healthy</li>"
    \o "<li>Continue gradual rollout based on performance</li></ol><hr/>"

PageHeader(now) ==
  "<h1>NPC Releases - Last " \o ToString(LOOKBACK_DAYS) \o " days</h1>"
    \o "<h2>Period: " \o MonthDay(now - LOOKBACK_DAYS * 86400) \o " - "
    \o LongDate(now) \o "</h2>"

\* releases is the list parse_releases returned, now the clock of the run
generate_confluence_html(releases, now) ==
  IF releases = <<>>
  THEN PageHeader(now) \o "<p><em>No releases found in the selected period.</em></p>"
  ELSE PageHeader(now)
         \o Sections(releases, SortedNames({releases[k].app : k \in 1..Len(releases)}), 1)
         \o ROLLOUT_PROCESS
         \o "<p><em>Auto-updated: " \o LongDateTime(now) \o "</em></p>"

(***************************************************************************)
(* The inputs the model is run on: the posts of a channel, the texts given *)
(* to the Record Builder and the threads given to the Reply Merger.        *)
(***************************************************************************)
MaxMsgs == 2       \* messages in the channel
PageLen == 1       \* messages Slack returns per history page
MaxEdits == 1      \* edits of the page by somebody else during one run
MaxReplies == 2    \* replies of a thread given to the Reply Merger
MaxRecords == 3    \* messages of a channel given to the page renderer
MaxBullets == 2    \* bullets under "Recent changes:"
MaxDup == 1        \* keys that occur on two lines of one message

\* the time of the k-th day of the channel
DayTime(k) == 1700000000 + 86400 * k

\* datetime.now() of the run
Clock == {DayTime(MaxMsgs + 1) + 3600 * 9 + 60 * 5}

ANNOUNCE_TEAM ==
  "The latest version of team (1.2.3) is ready for rollout to 10% of users on Android"

\* the posts a channel is made of: kind is "root", "single" or "reply"
Posts ==
  << [text |-> "Spades", kind |-> "root", replies |-> <<"Build Version:\nbeta-2">>],
     [text |-> "Spades-beta", kind |-> "root", replies |-> <<"Build Version:\n2">>],
     [text |-> "Spades\nVersion: 2.5.3", kind |-> "root", replies |-> <<>>],
     [text |-> "Spades\nVersion: 2.5.3\nStatus: In production\nRollout: 20%",
      kind |-> "single", replies |-> <<>>],
     [text |-> "Hi team, new build is ready!", kind |-> "root",
      replies |-> <<"this is Block Tok", "Status: Paused\nRollout: 50%">>],
     [text |-> ANNOUNCE_TEAM, kind |-> "single", replies |-> <<>>],
     [text |-> "Wordzee\nVersion: 1.0.0", kind |-> "reply", replies |-> <<>>],
     [text |-> "Hi team, new build is ready!", kind |-> "single", replies |-> <<>>] >>

\* the post as Slack holds it; thread_ts 0 stands for no thread_ts
Message(post, ts) ==
  [text |-> post.text, ts |-> ts,
   thread_ts |-> CASE post.kind = "root" -> ts
                   [] post.kind = "single" -> 0
                   [] OTHER -> ts - 60,
   replies |-> post.replies]

\* the strictly increasing index sequences of length n into 1..m
Increasing(n, m) ==
  {f \in [1..n -> 1..m] : \A a, b \in 1..n : a < b => f[a] < f[b]}

Orders(n) == {f \in [1..n -> 1..n] : \A a, b \in 1..n : a # b => f[a] # f[b]}

\* the channels: up to MaxMsgs different posts, on different days in any order
Channels ==
  UNION {{[k \in 1..n |-> Message(Posts[f[k]], DayTime(o[k]))] :
            f \in Increasing(n, Len(Posts)), o \in Orders(n)} : n \in 0..MaxMsgs}

\* --- texts for the Record Builder, put together from their parts ---
KV_KEYS == <<"Version", "Build", "Platform", "Status", "Rollout">>

\* the value of the first and of the second line of a key
KV_VALUES ==
  [Version |-> <<"2.5.3", "2.6.0">>, Build |-> <<"481", "500">>,
   Platform |-> <<"Android", "iOS">>, Status |-> <<"In production", "Paused">>,
   Rollout |-> <<"100%", "20%">>]

BULLETS == <<"Fixed crash on join", "Improved matchmaking", "Faster sync", "New avatars">>

HeadLines ==
  {[kind |-> "name", greet |-> g, name |-> n] : g \in {"", "Hi team"}, n \in {"Spades", "Wordzee"}}
    \cup {[kind |-> "announce", name |-> n, version |-> "1.2.3", percent |-> "10",
           platform |-> "Android"] : n \in {"Block Tok", "team"}}

\* the parts of a text: its head, the keys present, the keys present twice, the bullets
BuildInputs ==
  UNION {{[head |-> h, keys |-> ks, twice |-> tw, bullets |-> nb] :
            h \in HeadLines,
            tw \in {t \in SUBSET ks : Cardinality(t) <= MaxDup},
            nb \in 0..Min(MaxBullets, Len(BULLETS))} :
           ks \in SUBSET {KV_KEYS[k] : k \in 1..Len(KV_KEYS)}}

HeadText(h) ==
  IF h.kind = "announce"
  THEN <<"The latest version of " \o h.name \o " (" \o h.version
          \o ") is ready for rollout to " \o h.percent \o "% of users on " \o h.platform>>
  ELSE (IF h.greet = "" THEN <<>> ELSE <<h.greet>>) \o <<h.name>>

RECURSIVE KVLines(_, _)
KVLines(g, k) ==
  IF k > Len(KV_KEYS) THEN <<>>
  ELSE LET key == KV_KEYS[k]
       IN (IF key \in g.keys THEN <<key \o ": " \o KV_VALUES[key][1]>> ELSE <<>>)
            \o (IF key \in g.keys /\ key \in g.twice
                THEN <<key \o ": " \o KV_VALUES[key][2]>> ELSE <<>>)
            \o KVLines(g, k + 1)

BulletLines(g) ==
  IF g.bullets = 0 THEN <<>>
  ELSE <<"Recent changes:">> \o [k \in 1..g.bullets |-> "- " \o BULLETS[k]]

\* the text of the message with the parts g
Compose(g) == Join(HeadText(g.head) \o KVLines(g, 1) \o BulletLines(g), "\n")

NoInput == [head |-> [kind |-> "none"], keys |-> {}, twice |-> {}, bullets |-> 0]

\* --- threads for the Reply Merger ---
MergeRoots ==
  {"Hi team, new build is ready!",
   "New build is ready!\nPlatform: iOS",
   "Spades\nVersion: 2.5.3\nBuild: 481\nStatus: In production\nRollout: 100%",
   "The latest version of Hi team app (1.0.0) is ready for rollout to 10% of users on Android"}

ReplyTexts ==
  {"this is Block Tok", "app: Wordzee", "Approved for Spades",
   "Status: Paused\nRollout: 50%", "Rollout: 75%", "Status: :tada:",
   "Build Number:\n\n500",
   "Build Version:\n2.6.0\nBuild Number:\n500\nRecent changes:\n- Faster sync",
   "Android 2.5.4 is live", "Current Status: Live now"}

Threads == UNION {[1..n -> ReplyTexts] : n \in 0..MaxReplies}

\* --- channels for the page: several records of one app, and other apps ---
RenderPosts ==
  << [text |-> "Spades\nVersion: 2.5.3", kind |-> "single", replies |-> <<>>],
     [text |-> "Spades\nVersion: 2.6.0\nStatus: Paused", kind |-> "single", replies |-> <<>>],
     [text |-> "Spades\nVersion: 2.7.0\nStatus: In production\nRollout: 20%",
      kind |-> "root", replies |-> <<"Android 2.7.0 is live">>],
     [text |-> "Block Tok\nVersion: 1.0.0", kind |-> "single", replies |-> <<>>],
     [text |-> "Wordzee\nVersion: 1.0.0\nStatus: Internal testing", kind |-> "single",
      replies |-> <<>>] >>

\* up to MaxRecords different posts, one a day, the posts in any order
RenderChannels ==
  UNION {{[k \in 1..n |-> Message(RenderPosts[f[k]], DayTime(k))] :
            f \in {g \in [1..n -> 1..Len(RenderPosts)] :
                     \A a, b \in 1..n : a # b => g[a] # g[b]}} : n \in 0..MaxRecords}

(***************************************************************************)
(* The state of one run() and of the two services it talks to.             *)
(***************************************************************************)
VARIABLES
  channel,         \* Slack: the messages of the channel, each root with its replies
  page,            \* Confluence: the page, its version number and its content
  edits,           \* the edits of the page made by somebody else
  pc,              \* where run() is
  calls,           \* the requests sent so far, each with its outcome
  all_msgs,        \* get_slack_messages_with_threads: the messages fetched
  cursor,          \* the next_cursor of the last history page, 0 for none
  tix,             \* the message the thread loop (line 197) is at
  mi,              \* the message the loop of parse_releases (line 398) is at
  rel,             \* the record of that message
  ri,              \* the reply the loop of the Reply Merger (line 300) is at
  joined_plain,    \* the cleaned reply texts seen
  explicit_app,    \* the latest explicit app candidate seen
  built,           \* the timestamps of the messages given to the Record Builder
  releases,        \* the accepted records
  result,          \* what parse_releases returned
  html,            \* what generate_confluence_html returned
  current_version, \* the version number update_confluence read
  given            \* the parts the text under parse was put together from

vars ==
  <<channel, page, edits, pc, calls, all_msgs, cursor, tix, mi, rel, ri,
    joined_plain, explicit_app, built, releases, result, html, current_version, given>>

\* --- the services ---
\* conversations.history from cursor on; ok = FALSE is any error answer
HistoryResponse(ok, cur) ==
  LET first == IF cur = 0 THEN 1 ELSE cur
      last == Min(first + PageLen - 1, Len(channel))
  IN IF ok
     THEN [ok |-> TRUE,
           messages |-> [k \in 1..(last - first + 1) |->
                           [channel[first + k - 1] EXCEPT !.replies = <<>>]],
           next_cursor |-> IF last < Len(channel) THEN last + 1 ELSE 0]
     ELSE [ok |-> FALSE, messages |-> <<>>, next_cursor |-> 0]

\* conversations.replies of the thread ts: the root, then its replies
RepliesResponse(ok, ts) ==
  LET root == CHOOSE m \in {channel[k] : k \in 1..Len(channel)} : m.ts = ts
  IN IF ok
     THEN [ok |-> TRUE,
           messages |-> <<[text |-> root.text, ts |-> ts]>>
                          \o [k \in 1..Len(root.replies) |->
                                [text |-> root.replies[k], ts |-> ts + k]]]
     ELSE [ok |-> FALSE, messages |-> <<>>]

\* the status Confluence answers a PUT with: it takes the next version number only
PutStatus(server_ok, number) ==
  IF ~server_ok THEN 500 ELSE IF number = page.version + 1 THEN 200 ELSE 409

\* --- the script ---
\* line 179: if not data.get('ok'): raise
SlackFailed(data) == ~data.ok

\* the request made without raise_for_status()
NeverRaises(status) == FALSE

\* r.raise_for_status() raises
RaisesForStatus(status) == status >= 400

\* line 203
WithoutRoot(replies, m) ==
  IF replies # <<>> /\ replies[1].ts = m.ts THEN Tail(replies) ELSE replies

TextsOf(msgs) == [k \in 1..Len(msgs) |-> msgs[k].text]

\* lines 188-195: one pass of the history loop
HistoryPage ==
  /\ pc = "history"
  /\ \E ok \in BOOLEAN :
       LET data == HistoryResponse(ok, cursor)
       IN /\ calls' = Append(calls, <<"conversations.history", ok>>)
          /\ IF SlackFailed(data)
             THEN pc' = "failed" /\ UNCHANGED <<all_msgs, cursor>>
             ELSE /\ all_msgs' = all_msgs \o data.messages
                  /\ cursor' = data.next_cursor
                  /\ pc' = IF data.next_cursor = 0 THEN "threads" ELSE "history"
  /\ UNCHANGED <<channel, page, edits, tix, mi, rel, ri, joined_plain, explicit_app,
                 built, releases, result, html, current_version, given>>

\* lines 197-203: one pass of the thread loop
ThreadReplies ==
  /\ pc = "threads" /\ tix <= Len(all_msgs)
  /\ LET m == all_msgs[tix]
     IN IF is_thread_root(m)
        THEN \E ok \in BOOLEAN :
               LET rep_data == RepliesResponse(ok, m.ts)
               IN /\ calls' = Append(calls, <<"conversations.replies", ok>>)
                  /\ IF SlackFailed(rep_data)
                     THEN pc' = "failed" /\ UNCHANGED <<all_msgs, tix>>
                     ELSE /\ all_msgs' = [all_msgs EXCEPT ![tix].replies =
                                            TextsOf(WithoutRoot(rep_data.messages, m))]
                          /\ tix' = tix + 1
                          /\ pc' = pc
        ELSE tix' = tix + 1 /\ UNCHANGED <<all_msgs, pc, calls>>
  /\ UNCHANGED <<channel, page, edits, cursor, mi, rel, ri, joined_plain, explicit_app,
                 built, releases, result, html, current_version, given>>

\* lines 204-205, 522: the messages are returned and parse_releases starts
StartParse ==
  /\ pc = "threads" /\ tix > Len(all_msgs)
  /\ pc' = "parse" /\ mi' = 1 /\ releases' = <<>>
  /\ UNCHANGED <<channel, page, edits, calls, all_msgs, cursor, tix, rel, ri,
                 joined_plain, explicit_app, built, result, html, current_version, given>>

\* lines 398-411: the message is skipped or given to the Record Builder
BuildRecord ==
  /\ pc = "parse" /\ mi <= Len(all_msgs)
  /\ LET msg == all_msgs[mi]
     IN IF ~IsProcessed(msg)
        THEN mi' = mi + 1
               /\ UNCHANGED <<pc, rel, ri, joined_plain, explicit_app, built>>
        ELSE /\ rel' = BuildRelease(msg)
             /\ built' = Append(built, msg.ts)
             /\ ri' = 1 /\ joined_plain' = <<>> /\ explicit_app' = ""
             /\ pc' = IF HasReplies(msg) THEN "merge" ELSE "accept"
             /\ mi' = mi
  /\ UNCHANGED <<channel, page, edits, calls, all_msgs, cursor, tix, releases, result,
                 html, current_version, given>>

\* lines 300-364: one reply is merged into the record
ReplyStep ==
  /\ pc = "merge" /\ ri <= Len(all_msgs[mi].replies)
  /\ LET txt_raw == all_msgs[mi].replies[ri]
     IN /\ rel' = MergeReply(rel, txt_raw)
        /\ joined_plain' = Append(joined_plain, _clean_slack_text(txt_raw))
        /\ explicit_app' = LatestExplicit(explicit_app, txt_raw)
  /\ ri' = ri + 1
  /\ UNCHANGED <<channel, page, edits, pc, calls, all_msgs, cursor, tix, mi, built,
                 releases, result, html, current_version, given>>

\* lines 366-392: after the last reply
FinishMerge ==
  /\ pc = "merge" /\ ri > Len(all_msgs[mi].replies)
  /\ rel' = MergeFinish(rel, joined_plain, explicit_app)
  /\ pc' = "accept"
  /\ UNCHANGED <<channel, page, edits, calls, all_msgs, cursor, tix, mi, ri,
                 joined_plain, explicit_app, built, releases, result, html,
                 current_version, given>>

\* lines 415-421: the record is kept or dropped
Accept ==
  /\ pc = "accept"
  /\ releases' = IF Accepted(rel)
                 THEN Append(releases, WithTimestamp(rel, all_msgs[mi].ts))
                 ELSE releases
  /\ mi' = mi + 1
  /\ pc' = "parse"
  /\ UNCHANGED <<channel, page, edits, calls, all_msgs, cursor, tix, rel, ri,
                 joined_plain, explicit_app, built, result, html, current_version, given>>

\* lines 423-433: the records are deduplicated and sorted
Reduce ==
  /\ pc = "parse" /\ mi > Len(all_msgs)
  /\ result' = SortNewestFirst(Dedupe(releases))
  /\ pc' = "render"
  /\ UNCHANGED <<channel, page, edits, calls, all_msgs, cursor, tix, mi, rel, ri,
                 joined_plain, explicit_app, built, releases, html, current_version, given>>

\* line 527
Render ==
  /\ pc = "render"
  /\ \E now \in Clock : html' = generate_confluence_html(result, now)
  /\ pc' = "read"
  /\ UNCHANGED <<channel, page, edits, calls, all_msgs, cursor, tix, mi, rel, ri,
                 joined_plain, explicit_app, built, releases, result, current_version, given>>

\* lines 500-503: the page is read
ReadPage ==
  /\ pc = "read"
  /\ \E status \in {200, 500} :
       /\ calls' = Append(calls, <<"GET", status = 200>>)
       /\ IF RaisesForStatus(status)
          THEN pc' = "failed" /\ UNCHANGED current_version
          ELSE pc' = "write" /\ current_version' = page.version
  /\ UNCHANGED <<channel, page, edits, all_msgs, cursor, tix, mi, rel, ri, joined_plain,
                 explicit_app, built, releases, result, html, given>>

\* somebody else saves the page between the read and the write
ExternalEdit ==
  /\ pc = "write" /\ edits < MaxEdits
  /\ page' = [version |-> page.version + 1, content |-> "edited by somebody else"]
  /\ edits' = edits + 1
  /\ UNCHANGED <<channel, pc, calls, all_msgs, cursor, tix, mi, rel, ri, joined_plain,
                 explicit_app, built, releases, result, html, current_version, given>>

\* lines 505-517: the page is written with the next version number
WritePage ==
  /\ pc = "write"
  /\ \E server_ok \in BOOLEAN :
       LET number == current_version + 1
           status == PutStatus(server_ok, number)
       IN /\ calls' = Append(calls, <<"PUT", status = 200>>)
          /\ page' = IF status = 200 THEN [version |-> number, content |-> html] ELSE page
          /\ pc' = IF RaisesForStatus(status) THEN "failed" ELSE "done"
  /\ UNCHANGED <<channel, edits, all_msgs, cursor, tix, mi, rel, ri, joined_plain,
                 explicit_app, built, releases, result, html, current_version, given>>

\* what a run starts from
Fresh ==
  /\ page = [version |-> 1, content |-> "the page as it was"]
  /\ edits = 0 /\ calls = <<>> /\ cursor = 0 /\ mi = 1
  /\ rel = EmptyRecord /\ ri = 1 /\ joined_plain = <<>> /\ explicit_app = ""
  /\ built = <<>> /\ releases = <<>> /\ result = <<>> /\ html = ""
  /\ current_version = 0

\* a whole run over a channel
Init ==
  /\ channel \in Channels
  /\ given = NoInput
  /\ pc = "history" /\ all_msgs = <<>> /\ tix = 1
  /\ Fresh

Next ==
  \/ HistoryPage \/ ThreadReplies \/ StartParse
  \/ BuildRecord \/ ReplyStep \/ FinishMerge \/ Accept \/ Reduce
  \/ Render \/ ReadPage \/ ExternalEdit \/ WritePage

Spec == Init /\ [][Next]_vars

\* parse_releases is at its first message, the messages are fetched
Fetched ==
  /\ pc = "parse" /\ all_msgs = channel /\ tix = Len(channel) + 1
  /\ Fresh

\* the Record Builder over the texts put together from parts
InitBuild ==
  /\ given \in BuildInputs
  /\ channel = <<Message([text |-> Compose(given), kind |-> "single", replies |-> <<>>],
                         DayTime(1))>>
  /\ Fetched

NextBuild == BuildRecord

SpecBuild == InitBuild /\ [][NextBuild]_vars

\* the Reply Merger over the threads
InitMerge ==
  /\ given = NoInput
  /\ \E root \in MergeRoots, thread \in Threads :
       channel = <<Message([text |-> root, kind |-> "root", replies |-> thread], DayTime(1))>>
  /\ Fetched

NextMerge == BuildRecord \/ ReplyStep \/ FinishMerge

SpecMerge == InitMerge /\ [][NextMerge]_vars

\* parse_releases and the page renderer over the channels for the page
InitRender ==
  /\ given = NoInput
  /\ channel \in RenderChannels
  /\ Fetched

NextRender == BuildRecord \/ ReplyStep \/ FinishMerge \/ Accept \/ Reduce \/ Render

SpecRender == InitRender /\ [][NextRender]_vars

(***************************************************************************)
(* The claims.  parse_releases has returned once run() is past it; the     *)
(* accepted per-message records are in releases, what it returned in       *)
(* result.                                                                 *)
(***************************************************************************)
Returned == pc \in {"render", "read", "write", "done"}

Indices(xs) == 1..Len(xs)

\* the places in rs of the records with the app and the version of r
SamePair(rs, r) == {n \in Indices(rs) : rs[n].app = r.app /\ rs[n].version = r.version}

\* q is the record of rs with the greatest timestamp among those of r's pair
NewestOfPair(q, rs, r) ==
  /\ \E n \in SamePair(rs, r) : q = rs[n]
  /\ \A n \in SamePair(rs, r) : q.timestamp >= rs[n].timestamp

\* C1: the result holds exactly one record for each (app, version) pair of
\* the accepted records, and that record is the accepted record of the pair
\* with the greatest timestamp, all its fields its own
C1_OneRecordPerPair ==
  Returned =>
    \A k \in Indices(releases) :
      /\ Cardinality(SamePair(result, releases[k])) = 1
      /\ \A j \in SamePair(result, releases[k]) : NewestOfPair(result[j], releases, releases[k])

\* two accepted records of different pairs, of which the result holds one
C1_PairLost ==
  /\ Returned /\ Len(releases) = 2 /\ Len(result) = 1
  /\ releases[1].app # releases[2].app
  /\ DedupeKey(releases[1]) = DedupeKey(releases[2])

\* C2: the list parse_releases returns is ordered by timestamp, newest
\* first, and it is the one list its input determines: the list the
\* function parse_releases gives for the messages fetched
C2_NewestFirst ==
  Returned =>
    /\ \A k \in 1..(Len(result) - 1) : result[k].timestamp >= result[k + 1].timestamp
    /\ result = parse_releases(all_msgs)

\* the sort had to reorder: the older record was accepted first
C2_Reordered ==
  /\ Returned /\ Len(releases) >= 2 /\ Len(result) >= 2
  /\ releases[1].timestamp < releases[2].timestamp
  /\ result[1].timestamp > result[2].timestamp

\* C3: every record of the result has an app that is not empty, not a
\* generic title and not a stopword, and a version, a status or key changes
C3_NoRejectedApp ==
  Returned =>
    \A k \in Indices(result) :
      /\ result[k].app # ""
      /\ ~GENERIC_TITLES_RE(result[k].app)
      /\ Lower(result[k].app) \notin STOPWORDS
      /\ (result[k].version # "" \/ result[k].status # "" \/ result[k].key_changes # <<>>)

\* a record whose app is a stopword is in the result
C3_StopwordPublished ==
  Returned /\ \E k \in Indices(result) : Lower(result[k].app) \in STOPWORDS

\* the record the announcement sentence h alone gives for a message of time ts:
\* initial_rollout is the sentence's percentage too (line 223), published is
\* the date parse_releases puts on every record (line 408)
AnnouncedOnly(h, ts) ==
  [EmptyRecord EXCEPT
     !.app = h.name, !.version = h.version, !.platform = h.platform,
     !.rollout = h.percent \o "% staged rollout", !.status = "Ready for rollout",
     !.initial_rollout = h.percent \o "%", !.published = LongDate(ts)]

\* C4: for a message with the announcement sentence the record has app,
\* version, platform, rollout and status from the sentence and no field from
\* any other extractor, whatever key/value lines and bullets the message has
C4_AnnouncementOnly ==
  (pc = "accept" /\ given.head.kind = "announce") =>
    rel = AnnouncedOnly(given.head, all_msgs[mi].ts)

\* an announcement with Version:, Build: and Status: lines and bullets was built
C4_AnnouncementWithLines ==
  /\ pc = "accept" /\ given.head.kind = "announce"
  /\ {"Version", "Build", "Status"} \subseteq given.keys /\ given.bullets > 0
  /\ rel.version = given.head.version /\ rel.version # KV_VALUES.Version[1]
  /\ rel.build = "" /\ rel.key_changes = <<>>

\* a message of an app name, the five key/value lines once each, and bullets
NameAndAllKeys(g) ==
  /\ g.head.kind = "name" /\ g.head.greet = ""
  /\ g.keys = {KV_KEYS[k] : k \in Indices(KV_KEYS)} /\ g.twice = {} /\ g.bullets > 0

\* C5: for a message of an app name, Version:, Build:, Platform:, Status: and
\* Rollout: lines and a bullet list, the record holds each value verbatim:
\* rollout is the raw text of the Rollout: line, key_changes the bullets in order
C5_KeyValueVerbatim ==
  (pc = "accept" /\ NameAndAllKeys(given)) =>
    /\ rel.app = given.head.name
    /\ rel.version = KV_VALUES.Version[1] /\ rel.build = KV_VALUES.Build[1]
    /\ rel.platform = KV_VALUES.Platform[1] /\ rel.status = KV_VALUES.Status[1]
    /\ rel.rollout = KV_VALUES.Rollout[1]
    /\ rel.key_changes = SubSeq(BULLETS, 1, given.bullets)

\* the Rollout: value is in current_rollout, rollout is the reformatted percentage
C5_RolloutReformatted ==
  /\ pc = "accept" /\ NameAndAllKeys(given)
  /\ rel.current_rollout = KV_VALUES.Rollout[1]
  /\ rel.rollout = Staged("100")

\* the explicit app candidate of one reply
CandidateOf(txt_raw) == _extract_explicit_app_from_text(_clean_slack_text(txt_raw))

\* the place of the latest reply that has an explicit candidate, 0 for none
LatestWithCandidate(replies) ==
  MaxOf({k \in Indices(replies) : CandidateOf(replies[k]) # ""})

\* the hint-dictionary match over the joined reply texts
HintOverReplies(replies) == _infer_app_from_text(Join(CleanEach(replies), " "))

\* the app the thread of msg is to end with, root being the app of its root record
AppAfterReplies(root, replies, last) ==
  IF root # "" /\ ~GENERIC_TITLES_RE(root) THEN root
  ELSE IF last > 0 THEN CandidateOf(replies[last])
  ELSE Or(HintOverReplies(replies), root)

\* C6: after all replies of a thread, an unset or generic root app has become
\* the explicit candidate of the latest reply that has one, else the hint
\* match over the joined replies; a set, non-generic root app is unchanged
C6_AppAfterReplies ==
  (pc = "accept" /\ HasReplies(all_msgs[mi])) =>
    rel.app = AppAfterReplies(BuildRelease(all_msgs[mi]).app, all_msgs[mi].replies,
                              LatestWithCandidate(all_msgs[mi].replies))

\* a thread under a root without a usable app, two replies with different
\* candidates: the app is the later one
C6_LaterReplyWins ==
  /\ pc = "accept" /\ Len(all_msgs[mi].replies) = 2
  /\ BuildRelease(all_msgs[mi]).app = ""
  /\ CandidateOf(all_msgs[mi].replies[1]) # ""
  /\ CandidateOf(all_msgs[mi].replies[2]) # ""
  /\ CandidateOf(all_msgs[mi].replies[1]) # CandidateOf(all_msgs[mi].replies[2])
  /\ rel.app = CandidateOf(all_msgs[mi].replies[2])

\* the lines of all replies, in reply order
RECURSIVE LinesOf(_)
LinesOf(replies) ==
  IF replies = <<>> THEN <<>>
  ELSE StripEach(splitlines(Head(replies))) \o LinesOf(Tail(replies))

\* the line is "key: X" for one of the keys (lower case)
HasKey(line, keys) == \E key \in keys : StartsWithI(line, key \o ":")

\* the X of a line "key: X"
ValueOf(line) == Strip(From(line, Find(line, ":", 1) + 1))

\* the value of the last line with one of the keys, "" when there is none
LastValue(lines, keys) ==
  With(LastPos(LAMBDA k : HasKey(lines[k], keys), 1, Len(lines)), LAMBDA k :
    IF k = 0 THEN "" ELSE ValueOf(lines[k]))

HasLine(lines, keys) == \E k \in Indices(lines) : HasKey(lines[k], keys)

\* C7: after the whole thread, status is the value of the last Status: line
\* of the replies and rollout the value of the last Rollout: / Current
\* Rollout: line, whatever the root or earlier replies set, also when one
\* reply carries both lines
C7_StatusRolloutOverwritten ==
  (pc = "accept" /\ HasReplies(all_msgs[mi])) =>
    /\ HasLine(LinesOf(all_msgs[mi].replies), {"status", "current status"}) =>
         rel.status = _clean_slack_text(
                        LastValue(LinesOf(all_msgs[mi].replies), {"status", "current status"}))
    /\ HasLine(LinesOf(all_msgs[mi].replies), {"rollout", "current rollout"}) =>
         rel.rollout = _clean_slack_text(
                         LastValue(LinesOf(all_msgs[mi].replies), {"rollout", "current rollout"}))

\* a reply with a Status: and a Rollout: line: only the status is taken
C7_RolloutLineLost ==
  /\ pc = "accept" /\ all_msgs[mi].replies = <<"Status: Paused\nRollout: 50%">>
  /\ rel.status = "Paused" /\ rel.rollout = "" /\ rel.current_rollout = ""

StringFields ==
  {"app", "version", "build", "platform", "status", "published", "rollout",
   "initial_rollout", "current_rollout"}

IsPrefix(xs, ys) == Len(xs) <= Len(ys) /\ SubSeq(ys, 1, Len(xs)) = xs

\* C8: in every step of the Reply Merger key_changes and timeline only grow,
\* no field that holds a value loses it, and a set app is replaced only when
\* it is a generic title
C8_AccumulateOnly ==
  [][pc = "merge" =>
       /\ IsPrefix(rel.key_changes, rel'.key_changes)
       /\ IsPrefix(rel.timeline, rel'.timeline)
       /\ \A f \in StringFields : rel[f] # "" => rel'[f] # ""
       /\ (rel.app # "" /\ rel'.app # rel.app) => GENERIC_TITLES_RE(rel.app)]_vars

\* a reply has emptied the status the root had set
C8_StatusCleared ==
  /\ pc = "merge" /\ ri = 2 /\ all_msgs[mi].replies[1] = "Status: :tada:"
  /\ BuildRelease(all_msgs[mi]).status # "" /\ rel.status = ""

InitialContent == "the page as it was"
EditedContent == "edited by somebody else"

AllOk == \A k \in Indices(calls) : calls[k][2]

\* the call that failed is the last one made
FailedLast == ~calls[Len(calls)][2] /\ \A k \in 1..(Len(calls) - 1) : calls[k][2]

\* C9 for a state: a run with a failed call has ended in failure, made no
\* call after it and has not written; a write after somebody else's edit of
\* the page was rejected
C9_FailedRun ==
  /\ ~AllOk => (pc = "failed" /\ FailedLast /\ page.content \in {InitialContent, EditedContent})
  /\ pc = "failed" => ~AllOk
  /\ (edits > 0 /\ calls[Len(calls)][1] = "PUT") =>
       (pc = "failed" /\ page.content = EditedContent)
  /\ pc = "done" => (AllOk /\ page = [version |-> current_version + 1, content |-> html])

\* C9 for a step: the run changes the page only in the step that ends it, all
\* its calls having succeeded, to the version it read plus one
C9_WriteStep ==
  (page' # page /\ edits' = edits) =>
    /\ pc = "write" /\ pc' = "done" /\ AllOk'
    /\ page' = [version |-> current_version + 1, content |-> html]
    /\ page.version = current_version

\* C9: the page is modified only by a run all of whose fetches, read and
\* write succeeded, the write carrying the version read plus one; a run with
\* a failed call or a rejected write ends in failure, without a retry, the
\* page as it was
C9_PageOnlyBySuccessfulRun == []C9_FailedRun /\ [][C9_WriteStep]_vars

\* the write was rejected: somebody else had saved the page after the read
C9_WriteRejected ==
  /\ pc = "failed" /\ edits = 1 /\ calls[Len(calls)] = <<"PUT", FALSE>>
  /\ page = [version |-> current_version + 1, content |-> EditedContent]

\* the message of the channel with the time ts is a root or a standalone
\* post, and r is its record: built from its text, merged with its own replies
OwnRecord(r, m) ==
  /\ IsProcessed(m)
  /\ r = WithTimestamp(IF HasReplies(m)
                       THEN _merge_replies_into_release(BuildRelease(m), m.replies)
                       ELSE BuildRelease(m), m.ts)

\* C10: only thread roots and standalone posts are given to the Record
\* Builder; a reply-only message gives no record; replies reach a record only
\* through the merge into the record of their own thread's root
C10_OnlyRootsAndStandalone ==
  /\ \A k \in Indices(built) :
       \E n \in Indices(channel) :
         /\ channel[n].ts = built[k]
         /\ (channel[n].thread_ts = 0 \/ channel[n].thread_ts = channel[n].ts)
  /\ \A k \in Indices(releases) :
       \E n \in Indices(channel) :
         channel[n].ts = releases[k].timestamp /\ OwnRecord(releases[k], channel[n])
  /\ \A k \in Indices(result) : \E n \in Indices(releases) : result[k] = releases[n]

\* a channel with a reply-only message and a thread: the only record is the
\* thread's, with the app its replies named
C10_ReplySkipped ==
  /\ Returned /\ Len(channel) = 2 /\ Len(built) = 1 /\ Len(result) = 1
  /\ \E n \in Indices(channel) :
       channel[n].thread_ts # 0 /\ channel[n].thread_ts # channel[n].ts
  /\ \E n \in Indices(channel) :
       /\ channel[n].replies # <<>> /\ built[1] = channel[n].ts
       /\ result[1].app = CandidateOf(channel[n].replies[1])

\* the field of the record a key/value line of the key is kept in (lines 238-248)
KeptIn ==
  [Version |-> "version", Build |-> "build", Platform |-> "platform",
   Status |-> "status", Rollout |-> "current_rollout"]

\* C11: in one pass of the Record Builder a field once set is not changed by
\* a later line: of two lines with the same key (Version:, Build:, Platform:,
\* Status:, Rollout:) the value of the first is the one the record keeps
C11_FirstLineWins ==
  (pc = "accept" /\ given.head.kind = "name") =>
    \A key \in given.twice : rel[KeptIn[key]] = KV_VALUES[key][1]

\* a message with two Status: lines: the record has the status of the second
C11_SecondStatusKept ==
  /\ pc = "accept" /\ given.head.kind = "name" /\ given.twice = {"Status"}
  /\ rel.status = KV_VALUES.Status[2] /\ rel.status # KV_VALUES.Status[1]

BUILD_CARD == "Build Version:\n2.6.0\nBuild Number:\n500\nRecent changes:\n- Faster sync"

\* C12: in every step of the Reply Merger a version, build or platform that
\* the root or an earlier reply has set is unchanged, whatever the reply
\* carries: a build card, a rolled-out or is-live phrase, a bracketed platform
C12_FillsOnlyUnset ==
  [][pc = "merge" =>
       \A f \in {"version", "build", "platform"} : rel[f] # "" => rel'[f] = rel[f]]_vars

\* a reply with a build card under a root that has a build: the build is the card's
C12_BuildReplaced ==
  /\ pc = "merge" /\ ri = 2 /\ all_msgs[mi].replies[1] = BUILD_CARD
  /\ BuildRelease(all_msgs[mi]).build = "481" /\ rel.build = "500"
  /\ rel.version = BuildRelease(all_msgs[mi]).version /\ rel.version # "2.6.0"

\* the message is an optional opener, a name line and then the Version: line
NameBeforeVersion(g) == g.head.kind = "name" /\ "Version" \in g.keys

\* C13: with no app from a higher extractor, the app is the normalized line
\* just before the first Version: line, also when that is the second line,
\* under a generic opener, and the name is not in the hint dictionary
C13_AppFromLineBeforeVersion ==
  (pc = "accept" /\ NameBeforeVersion(given)) =>
    rel.app = _normalize_app_candidate(given.head.name)

\* opener, a name the hint dictionary does not have, Version: line: no app
C13_SecondLineNotTaken ==
  /\ pc = "accept" /\ NameBeforeVersion(given) /\ given.head.greet = "Hi team"
  /\ _infer_app_from_text(given.head.name) = ""
  /\ _normalize_app_candidate(given.head.name) = given.head.name
  /\ rel.app = "" /\ rel.version = KV_VALUES.Version[1]

\* the page has been rendered from the result
Rendered == pc = "read"

AppsOf(rs) == {rs[k].app : k \in Indices(rs)}

\* the place of the app among the apps of rs in lexicographic order
RankOf(rs, app) == 1 + Cardinality({b \in AppsOf(rs) : StrLess(b, app)})

\* the records of the app, its newest one, and the others
RecordsOf(rs, app) == {rs[k] : k \in {j \in Indices(rs) : rs[j].app = app}}

NewestOf(rs, app) ==
  CHOOSE r \in RecordsOf(rs, app) : \A q \in RecordsOf(rs, app) : r.timestamp >= q.timestamp

OthersOf(rs, app) == RecordsOf(rs, app) \ {NewestOf(rs, app)}

\* the heading of the app's section, and the heading with the headline fields of r
Heading(rs, app) == "<h3>" \o ToString(RankOf(rs, app)) \o ". " \o app \o "</h3><ul>"

Headline(rs, app, r) ==
  Heading(rs, app)
    \o LiIf("Version", r.version) \o LiIf("Build", r.build) \o LiIf("Platform", r.platform)
    \o LiIf("Published", r.published) \o LiIf("Rollout", r.rollout)
    \o LiIf("Status", r.status) \o "</ul>"

\* where the list item with the text is in the app's section of the page, 0 for nowhere
ItemPos(page_html, rs, app, text) ==
  Find(page_html, "<li>" \o text \o "</li>", Find(page_html, Heading(rs, app), 1))

\* the sections are in the lexicographic order of the apps
AppsInOrder(page_html, rs) ==
  \A a, b \in AppsOf(rs) :
    /\ Find(page_html, Heading(rs, a), 1) > 0
    /\ StrLess(a, b) => Find(page_html, Heading(rs, a), 1) < Find(page_html, Heading(rs, b), 1)

\* the headline fields of every section are those of the app's newest record
HeadlineFromNewest(page_html, rs) ==
  \A a \in AppsOf(rs) : Contains(page_html, Headline(rs, a, NewestOf(rs, a)))

\* the timeline events of the headline record come first, then the other records
EventsBeforeOthers(page_html, rs, app, events) ==
  \A k \in Indices(events) : \A o \in OthersOf(rs, app) :
    /\ ItemPos(page_html, rs, app, events[k]) > 0
    /\ ItemPos(page_html, rs, app, events[k]) < ItemPos(page_html, rs, app, HistoryLine(o))

\* every other record of the app is listed, a newer one before an older one
OthersNewestFirst(page_html, rs, app) ==
  \A o, q \in OthersOf(rs, app) :
    /\ ItemPos(page_html, rs, app, HistoryLine(o)) > 0
    /\ o.timestamp > q.timestamp =>
         ItemPos(page_html, rs, app, HistoryLine(o)) < ItemPos(page_html, rs, app, HistoryLine(q))

\* the apps are in lexicographic order and each headline is the newest record's
C14_Headlines ==
  Rendered => (AppsInOrder(html, result) /\ HeadlineFromNewest(html, result))

\* C14: in the rendered page the apps are in lexicographic order, the
\* headline fields of an app are those of its newest record, and its timeline
\* lists the headline record's timeline events and then the app's other
\* records, the newest of them first and the oldest last
C14_TimelineNewestFirst ==
  Rendered =>
    /\ AppsInOrder(html, result) /\ HeadlineFromNewest(html, result)
    /\ \A a \in AppsOf(result) :
         /\ EventsBeforeOthers(html, result, a, NewestOf(result, a).timeline)
         /\ OthersNewestFirst(html, result, a)

\* three records of one app: of the two other records the older is listed first
C14_OldestListedFirst ==
  /\ Rendered /\ Len(result) = 3 /\ Cardinality(AppsOf(result)) = 1
  /\ result[2].timestamp > result[3].timestamp
  /\ ItemPos(html, result, result[1].app, HistoryLine(result[3])) > 0
  /\ ItemPos(html, result, result[1].app, HistoryLine(result[3]))
       < ItemPos(html, result, result[1].app, HistoryLine(result[2]))

====
